---- MODULE Spec2Model ----
(***************************************************************************)
(* Verification model of the interview coach: the LangGraph workflow       *)
(* (app/graph), the policy primitives (app/policies), the structured call  *)
(* (app/llm) and the session loop (app/main.py).                           *)
(*                                                                         *)
(* Encoding of Python values:                                              *)
(*   dict            a function over its string keys; {} is <<>>           *)
(*   str (free text) a tuple of one-character strings, so that strip(),    *)
(*                   lower() and `in` are computed, not assumed.  Cyrillic *)
(*                   text of the source is written transliterated.         *)
(*   str (enum/id)   a TLA+ string                                         *)
(*   None            "None" where the other values are strings, NoneRec    *)
(*                   where the other values are dicts                      *)
(*   JSON scalar of answer_quality: its JSON text ("low", "0", "true")     *)
(*   model reply     a tuple of the characters "{", "}", "a", "b", "7",    *)
(*                   "x": "a" is the body of an object the schema accepts, *)
(*                   "b" of one it rejects, "x" is text that is no JSON    *)
(***************************************************************************)
EXTENDS Integers, Sequences, FiniteSets, TLC

VARIABLES
    state,            \* the session state dict threaded through the graph
    pc,               \* the graph node to run next, or the session loop's position
    trace,            \* nodes executed so far in the current graph.invoke
    log,              \* the persisted InterviewLog of the session (the JSON file)
    invocations,      \* number of graph.invoke calls started in this session
    extractor_calls,  \* number of extract_candidate_profile_llm calls in this session
    call              \* last call of a policy primitive: [fn, args, result], or the
                      \* structured call in progress, or the waiting session and the
                      \* log files of a process that serves two sessions

vars == <<state, pc, trace, log, invocations, extractor_calls, call>>

None == "None"
NoneRec == [none |-> TRUE]
NoneMsg == <<"<None>">>      \* None where the other values are free text
LLMCallError == [error |-> "LLMCallError"]   \* safe_call_for_json exhausted its attempts

----------------------------------------------------------------------------
(* Python dict and str helpers *)

Get(d, k, default) == IF k \in DOMAIN d THEN d[k] ELSE default

\* build._wrap: merged = dict(state); merged.update(updates)
Merge(s, updates) ==
    [k \in (DOMAIN s) \cup (DOMAIN updates) |->
        IF k \in DOMAIN updates THEN updates[k] ELSE s[k]]

IsSpace(c) == c \in {" ", "\n", "\t"}

RECURSIVE LStrip(_)
LStrip(s) == IF s # <<>> /\ IsSpace(Head(s)) THEN LStrip(Tail(s)) ELSE s

RECURSIVE RStrip(_)
RStrip(s) ==
    IF s # <<>> /\ IsSpace(s[Len(s)]) THEN RStrip(SubSeq(s, 1, Len(s) - 1)) ELSE s

\* str.strip()
Strip(s) == RStrip(LStrip(s))

UPPERCASE == <<"A", "B", "C", "D", "E", "F", "G", "H", "I", "J", "K", "L", "M", "N", "O", "P", "Q", "R", "S", "T", "U", "V", "W", "X", "Y", "Z">>
LOWERCASE == <<"a", "b", "c", "d", "e", "f", "g", "h", "i", "j", "k", "l", "m", "n", "o", "p", "q", "r", "s", "t", "u", "v", "w", "x", "y", "z">>

LowerChar(c) ==
    IF \E i \in DOMAIN UPPERCASE : UPPERCASE[i] = c
    THEN LOWERCASE[CHOOSE i \in DOMAIN UPPERCASE : UPPERCASE[i] = c]
    ELSE c

\* str.lower()
Lower(s) == [i \in 1..Len(s) |-> LowerChar(s[i])]

\* Python `p in s` for strings
Contains(s, p) ==
    \E i \in 0..(Len(s) - Len(p)) : SubSeq(s, i + 1, i + Len(p)) = p

----------------------------------------------------------------------------
(* app/policies/router.py *)

RobustnessDetection(off_topic, role_reversal, hallucination_claim, evasive, candidate_question, suspicious_claim) ==
    [off_topic |-> off_topic, role_reversal |-> role_reversal,
     hallucination_claim |-> hallucination_claim, evasive |-> evasive,
     candidate_question |-> candidate_question, suspicious_claim |-> suspicious_claim]

\* a plausible slip: an evasive answer is not sent to refocus
choose_route_refocus_unless_evasive(stop_requested, det) ==
    IF stop_requested THEN "final"
    ELSE IF det.role_reversal THEN "answer_candidate"
    ELSE IF det.hallucination_claim THEN "hallucination"
    ELSE IF det.off_topic /\ ~det.evasive THEN "refocus"
    ELSE "normal"

\* a plausible slip: off_topic tested before the other two flags
choose_route_offtopic_first(stop_requested, det) ==
    IF stop_requested THEN "final"
    ELSE IF det.off_topic THEN "refocus"
    ELSE IF det.role_reversal THEN "answer_candidate"
    ELSE IF det.hallucination_claim THEN "hallucination"
    ELSE "normal"

choose_route(stop_requested, det) ==
    IF stop_requested THEN "final"
    ELSE IF det.role_reversal THEN "answer_candidate"
    ELSE IF det.hallucination_claim THEN "hallucination"
    ELSE IF det.off_topic THEN "refocus"
    ELSE "normal"

----------------------------------------------------------------------------
(* app/policies/adaptability.py *)

Max(a, b) == IF a >= b THEN a ELSE b
Min(a, b) == IF a <= b THEN a ELSE b

MIN_DIFFICULTY == 1
MAX_DIFFICULTY == 5

\* a plausible slip: the lower clamp is forgotten
apply_difficulty_no_floor(difficulty, delta) ==
    Min(MAX_DIFFICULTY, (IF difficulty = 0 THEN 1 ELSE difficulty) + delta)

\* a plausible slip: the upper clamp is forgotten
apply_difficulty_no_ceiling(difficulty, delta) ==
    Max(MIN_DIFFICULTY, (IF difficulty = 0 THEN 1 ELSE difficulty) + delta)

\* int(difficulty or 1) + int(delta or 0), clamped
apply_difficulty(difficulty, delta) ==
    LET base == IF difficulty = 0 THEN 1 ELSE difficulty
        delta_val == delta
        new_val == base + delta_val
    IN  Max(MIN_DIFFICULTY, Min(MAX_DIFFICULTY, new_val))

\* correctness in ("wrong", "low", "incorrect")
LOW_CORRECTNESS == {"wrong", "low", "incorrect"}
\* confidence in ("low", 0, 1); in Python True == 1 and False == 0
LOW_CONFIDENCE == {"low", "0", "1", "true", "false"}
\* correctness in ("partial", "mixed")
PARTIAL_CORRECTNESS == {"partial", "mixed"}

\* a plausible slip: the answer-quality tests come before the robustness flags
decide_action_type_quality_first(observer_json, prev_action_type) ==
    LET robustness == Get(observer_json, "robustness", <<>>)
        answer_quality == Get(observer_json, "answer_quality", <<>>)
        correctness == Get(answer_quality, "correctness", None)
        confidence == Get(answer_quality, "confidence", None)
    IN  IF correctness \in LOW_CORRECTNESS \/ confidence \in LOW_CONFIDENCE THEN "simplify"
        ELSE IF correctness \in PARTIAL_CORRECTNESS THEN "clarify"
        ELSE IF Get(robustness, "off_topic", FALSE) THEN "refocus"
        ELSE IF Get(robustness, "role_reversal", FALSE) THEN "answer_candidate"
        ELSE IF prev_action_type = "simplify" THEN "hint"
        ELSE "ask"

decide_action_type(observer_json, prev_action_type) ==
    LET robustness == Get(observer_json, "robustness", <<>>)
        answer_quality == Get(observer_json, "answer_quality", <<>>)
        correctness == Get(answer_quality, "correctness", None)
        confidence == Get(answer_quality, "confidence", None)
    IN  IF Get(robustness, "off_topic", FALSE) THEN "refocus"
        ELSE IF Get(robustness, "role_reversal", FALSE) THEN "answer_candidate"
        ELSE IF correctness \in LOW_CORRECTNESS \/ confidence \in LOW_CONFIDENCE THEN "simplify"
        ELSE IF correctness \in PARTIAL_CORRECTNESS THEN "clarify"
        ELSE IF prev_action_type = "simplify" THEN "hint"
        ELSE "ask"

----------------------------------------------------------------------------
(* app/policies/safety_limits.py *)

\* "<emoji>" stands for any code point outside [\x09\x0A\x0D\x20-\x7EЀ-ӿ]
IsAllowedChar(c) == c # "<emoji>"

\* re.sub(disallowed, " "), strip(), cut to max_len
normalize_text(s, max_len) ==
    LET cleaned == Strip([i \in 1..Len(s) |-> IF IsAllowedChar(s[i]) THEN s[i] ELSE " "])
    IN  IF cleaned = <<>> THEN <<>>
        ELSE IF Len(cleaned) > max_len THEN SubSeq(cleaned, 1, max_len)
        ELSE cleaned

USER_MESSAGE_MAX_LEN == 4000
AGENT_MESSAGE_MAX_LEN == 2000

----------------------------------------------------------------------------
(* app/policies/question_bank.py *)

\* prompts are pairwise different texts; "P:<id>" names the prompt of question <id>
QUESTION_BANK ==
    << [question_id |-> "py_types_1", topic |-> "python_types", difficulty |-> 1, type |-> "ask", prompt |-> <<"P:py_types_1">>],
       [question_id |-> "py_types_1_simplify", topic |-> "python_types", difficulty |-> 1, type |-> "simplify", prompt |-> <<"P:py_types_1_simplify">>],
       [question_id |-> "py_types_1_hint", topic |-> "python_types", difficulty |-> 1, type |-> "hint", prompt |-> <<"P:py_types_1_hint">>],
       [question_id |-> "py_iter_2", topic |-> "python_iterators", difficulty |-> 2, type |-> "ask", prompt |-> <<"P:py_iter_2">>],
       [question_id |-> "py_iter_2_clarify", topic |-> "python_iterators", difficulty |-> 2, type |-> "clarify", prompt |-> <<"P:py_iter_2_clarify">>],
       [question_id |-> "sql_join_1", topic |-> "sql_joins", difficulty |-> 1, type |-> "ask", prompt |-> <<"P:sql_join_1">>],
       [question_id |-> "sql_join_1_simplify", topic |-> "sql_joins", difficulty |-> 1, type |-> "simplify", prompt |-> <<"P:sql_join_1_simplify">>],
       [question_id |-> "py_oop_3", topic |-> "python_oop", difficulty |-> 3, type |-> "ask", prompt |-> <<"P:py_oop_3">>],
       [question_id |-> "sql_index_3", topic |-> "sql_indexes", difficulty |-> 3, type |-> "ask", prompt |-> <<"P:sql_index_3">>],
       [question_id |-> "git_rebase_1", topic |-> "git_basics", difficulty |-> 1, type |-> "ask", prompt |-> <<"P:git_rebase_1">>],
       [question_id |-> "git_rebase_1_clarify", topic |-> "git_basics", difficulty |-> 1, type |-> "clarify", prompt |-> <<"P:git_rebase_1_clarify">>] >>

\* Python truthiness of an Optional[str]
Truthy(x) == x # None /\ x # ""

get_candidates(topic, difficulty, qtype) ==
    LET by_difficulty == SelectSeq(QUESTION_BANK, LAMBDA q : q.difficulty = difficulty)
        by_topic == IF Truthy(topic) THEN SelectSeq(by_difficulty, LAMBDA q : q.topic = topic) ELSE by_difficulty
    IN  IF Truthy(qtype) THEN SelectSeq(by_topic, LAMBDA q : q.type = qtype) ELSE by_topic

\* a plausible slip: the asked set is not consulted
FirstUnasked_ignores_asked(pool, asked_questions) ==
    IF pool = <<>> THEN NoneRec ELSE Head(pool)

\* the first element of pool whose id is not asked, else None
FirstUnasked(pool, asked_questions) ==
    LET fresh == SelectSeq(pool, LAMBDA q : q.question_id \notin asked_questions)
    IN  IF fresh = <<>> THEN NoneRec ELSE Head(fresh)

pick_next_question(asked_questions, topic, difficulty, qtype) ==
    FirstUnasked(get_candidates(topic, difficulty, qtype), asked_questions)

\* sorted({q["topic"] for q in QUESTION_BANK})
get_all_topics == <<"git_basics", "python_iterators", "python_oop", "python_types", "sql_indexes", "sql_joins">>

----------------------------------------------------------------------------
(* app/policies/context_guard.py *)

\* str.strip().lower() of a topic or status word: spellings the observer may use, by their normal form
TOPIC_SPELLINGS ==
       (" SQL_Joins " :> "sql_joins") @@ ("Python_OOP" :> "python_oop")
    @@ (" GAP " :> "gap") @@ ("Confirmed" :> "confirmed")

normalize_topic(topic) == IF topic \in DOMAIN TOPIC_SPELLINGS THEN TOPIC_SPELLINGS[topic] ELSE topic

enforce_no_repeat(chosen, asked_questions, fallback_pool) ==
    IF chosen = NoneRec THEN FirstUnasked(fallback_pool, asked_questions)
    ELSE IF chosen.question_id \notin asked_questions THEN chosen
    ELSE FirstUnasked(fallback_pool, asked_questions)

\* a plausible slip: a switch is forced only after three identical topics
should_switch_topic_needs_three(last_topics, available_topics) ==
    IF Len(last_topics) < 3 THEN FALSE
    ELSE IF last_topics[Len(last_topics)] # last_topics[Len(last_topics) - 1] THEN FALSE
    ELSE IF last_topics[Len(last_topics)] # last_topics[Len(last_topics) - 2] THEN FALSE
    ELSE \E i \in DOMAIN available_topics : available_topics[i] # last_topics[Len(last_topics)]

should_switch_topic(last_topics, available_topics) ==
    IF Len(last_topics) < 2 THEN FALSE
    ELSE IF last_topics[Len(last_topics)] # last_topics[Len(last_topics) - 1] THEN FALSE
    ELSE \E i \in DOMAIN available_topics : available_topics[i] # last_topics[Len(last_topics)]

\* the last n items of a list: lst[-n:]
LastN(lst, n) == IF Len(lst) <= n THEN lst ELSE SubSeq(lst, Len(lst) - n + 1, Len(lst))

----------------------------------------------------------------------------
(* app/policies/topic_manager.py *)

\* statuses are lower-case enum words here, which normalize_topic(str(.)) leaves as they are
\* a plausible slip: a status the mapping does not know ranks with confirmed
_status_priority_default_confirmed(status) ==
    CASE status = "gap" -> 0
      [] status = "uncertain" -> 1
      [] status = "unknown" -> 2
      [] status = "confirmed" -> 3
      [] OTHER -> 3

_status_priority(status) ==
    CASE status = "gap" -> 0
      [] status = "uncertain" -> 1
      [] status = "unknown" -> 2
      [] status = "confirmed" -> 3
      [] OTHER -> 2

RECURSIVE ConcatAll(_)
ConcatAll(seqs) == IF seqs = <<>> THEN <<>> ELSE Head(seqs) \o ConcatAll(Tail(seqs))

select_next_topic(skill_matrix, topic_state) ==
    LET all_topics == get_all_topics
        last_topics == Get(topic_state, "last_topics", <<>>)
        prio(topic) == _status_priority(normalize_topic(Get(Get(skill_matrix, topic, <<>>), "status", "unknown")))
        \* scored.sort(key=priority) is stable: equal priorities keep the order of all_topics
        scored == ConcatAll([p \in 1..4 |-> SelectSeq(all_topics, LAMBDA t : prio(t) = p - 1)])
        selected == IF scored # <<>> THEN scored[1] ELSE "general"
        others == SelectSeq(scored, LAMBDA t : t # last_topics[Len(last_topics)])
    IN  IF should_switch_topic(last_topics, all_topics) /\ others # <<>> THEN others[1]
        ELSE selected

----------------------------------------------------------------------------
(* app/memory/skills.py *)

\* a plausible slip: the status of the latest update always wins
RECURSIVE apply_skill_updates_overwrites(_, _)
apply_skill_updates_overwrites(skill_matrix, updates) ==
    IF updates = <<>> THEN skill_matrix
    ELSE LET item == Head(updates)
             entry == Get(skill_matrix, item.topic, [status |-> None, evidence |-> <<>>])
             evidence_list == IF item.evidence # "" THEN Append(entry.evidence, item.evidence) ELSE entry.evidence
             new_status == IF item.status # "" THEN item.status ELSE entry.status
             updated == Merge(skill_matrix, (item.topic :> [status |-> new_status, evidence |-> evidence_list]))
         IN  IF item.topic = "" THEN apply_skill_updates_overwrites(skill_matrix, Tail(updates))
             ELSE apply_skill_updates_overwrites(updated, Tail(updates))

RECURSIVE apply_skill_updates(_, _)
apply_skill_updates(skill_matrix, updates) ==
    IF updates = <<>> THEN skill_matrix
    ELSE
        LET item == Head(updates)
            entry == Get(skill_matrix, item.topic, [status |-> None, evidence |-> <<>>])
            current_status == entry.status
            evidence_list == IF item.evidence # "" THEN Append(entry.evidence, item.evidence) ELSE entry.evidence
            new_status ==
                IF current_status = "confirmed" /\ item.status # "confirmed" THEN current_status
                ELSE IF item.status # "" THEN item.status ELSE current_status
            updated == Merge(skill_matrix, (item.topic :> [status |-> new_status, evidence |-> evidence_list]))
        IN  IF item.topic = "" THEN apply_skill_updates(skill_matrix, Tail(updates))
            ELSE apply_skill_updates(updated, Tail(updates))

----------------------------------------------------------------------------
(* app/memory/controls.py *)

PROMPT_RING_SIZE == 5

\* sha1 of the prompt text: different prompts of the bank have different digests
_hash_prompt(prompt) == <<"sha1", prompt>>

\* a plausible slip: a full ring keeps its oldest entries and drops the new one
detect_loop_hashes_keeps_oldest(topic_state, new_prompt) ==
    LET hashes == Append(Get(topic_state, "last_prompts_hashes", <<>>), _hash_prompt(new_prompt))
    IN  SubSeq(hashes, 1, Min(Len(hashes), PROMPT_RING_SIZE))

\* the ring after detect_loop has recorded new_prompt
detect_loop_hashes(topic_state, new_prompt) ==
    LastN(Append(Get(topic_state, "last_prompts_hashes", <<>>), _hash_prompt(new_prompt)), PROMPT_RING_SIZE)

\* a plausible slip: two identical hashes in a row are taken for a loop
detect_loop_two_in_a_row(topic_state, new_prompt) ==
    LET hashes == Append(Get(topic_state, "last_prompts_hashes", <<>>), _hash_prompt(new_prompt))
        n == Len(hashes)
    IN  n >= 2 /\ hashes[n] = hashes[n - 1]

\* the value detect_loop returns
detect_loop(topic_state, new_prompt) ==
    LET hashes == Append(Get(topic_state, "last_prompts_hashes", <<>>), _hash_prompt(new_prompt))
        n == Len(hashes)
    IN  n >= 3 /\ hashes[n] = hashes[n - 1] /\ hashes[n - 1] = hashes[n - 2]

break_loop(skill_matrix, topic_state) == select_next_topic(skill_matrix, topic_state)

HISTORY_TAIL_DEFAULT == 16

history_tail(history, max_items) == IF history = <<>> THEN <<>> ELSE LastN(history, max_items)

----------------------------------------------------------------------------
(* free texts used as inputs and literals (Cyrillic literals transliterated) *)

\* main.py greeting, one token standing for the whole text
GREETING == <<"T:greeting">>
\* fallbacks.py:39 default interviewer prompt
DEFAULT_PROMPT == <<"T:tell_me_about_your_experience">>
\* nodes.py:321 default message of hallucination_node
DEFAULT_SAFE_RESPONSE == <<"T:looks_unreliable">>
\* nodes.py:304 default topic words of refocus_node
DEFAULT_REFOCUS_TOPIC == "T:interview_topic"

\* nodes.py:48-52 STOP_PHRASES
STOP_PHRASES == {
    <<"s", "t", "o", "p", " ", "i", "n", "t", "e", "r", "v", "y", "u">>,
    <<"s", "t", "o", "p", " ", "i", "g", "r", "a">>,
    <<"d", "a", "v", "a", "y", " ", "f", "i", "d", "b", "e", "k">> }

MSG_EMPTY == <<>>
MSG_BLANK == <<" ">>
MSG_ANSWER == <<"l", "i", "s", "t">>
MSG_QUESTION == <<"a", " ", "w", "h", "y", "?">>
MSG_STOP_PHRASE == <<"o", "k", " ", "s", "t", "o", "p", " ", "i", "g", "r", "a">>
MSG_STOP_UPPER == <<"S", "T", "O", "P", " ", "I", "g", "r", "a">>
MSG_ALMOST_STOP == <<"s", "t", "o", "p">>

----------------------------------------------------------------------------
(* app/policies/robustness.py *)

\* re.split(r"[\n\.?!]", text)
RECURSIVE ReSplit(_, _)
ReSplit(text, seps) ==
    IF \A i \in DOMAIN text : text[i] \notin seps THEN <<text>>
    ELSE LET i == CHOOSE j \in DOMAIN text : text[j] \in seps /\ \A k \in 1..(j - 1) : text[k] \notin seps
         IN  <<SubSeq(text, 1, i - 1)>> \o ReSplit(SubSeq(text, i + 1, Len(text)), seps)

Reverse(s) == [i \in 1..Len(s) |-> s[Len(s) + 1 - i]]

_extract_candidate_question(text) ==
    IF ~Contains(text, <<"?">>) THEN NoneMsg
    ELSE LET split == ReSplit(text, {"\n", ".", "?", "!"})
             parts == SelectSeq([i \in DOMAIN split |-> Strip(split[i])], LAMBDA p : p # <<>>)
             asking == SelectSeq(Reverse(parts), LAMBDA p : Contains(p, <<"?">>))
         IN  IF asking # <<>> THEN Append(asking[1], "?") ELSE Strip(text)

\* a plausible slip: a very short message counts as evasive whatever the evaluator said
detect_robustness_short_is_evasive(s) ==
    LET user_message == Strip(Get(s, "user_message", <<>>))
        observer_robustness == Get(Get(s, "observer_json", <<>>), "robustness", <<>>)
        off_topic == Get(observer_robustness, "off_topic", FALSE)
        role_reversal == Get(observer_robustness, "role_reversal", FALSE)
        candidate_question == IF role_reversal THEN _extract_candidate_question(user_message) ELSE NoneMsg
        hallucination_claim == Get(observer_robustness, "hallucination_claim", FALSE)
        suspicious_claim == IF hallucination_claim THEN user_message ELSE NoneMsg
        evasive == Get(observer_robustness, "evasive", FALSE) \/ Len(user_message) < 3
    IN  RobustnessDetection(off_topic, role_reversal, hallucination_claim, evasive, candidate_question, suspicious_claim)

detect_robustness(s) ==
    LET user_message == Strip(Get(s, "user_message", <<>>))
        observer_robustness == Get(Get(s, "observer_json", <<>>), "robustness", <<>>)
        off_topic == Get(observer_robustness, "off_topic", FALSE)
        role_reversal == Get(observer_robustness, "role_reversal", FALSE)
        candidate_question == IF role_reversal THEN _extract_candidate_question(user_message) ELSE NoneMsg
        hallucination_claim == Get(observer_robustness, "hallucination_claim", FALSE)
        suspicious_claim == IF hallucination_claim THEN user_message ELSE NoneMsg
        evasive == Get(observer_robustness, "evasive", FALSE)
    IN  RobustnessDetection(off_topic, role_reversal, hallucination_claim, evasive, candidate_question, suspicious_claim)

\* RobustnessDetection.reason: the parts joined by ", ", or "no issues detected"
detect_robustness_reason(det) ==
    LET reason_parts ==
            (IF det.off_topic THEN <<"off_topic keywords">> ELSE <<>>)
         \o (IF det.role_reversal THEN <<"candidate asked about process">> ELSE <<>>)
         \o (IF det.hallucination_claim THEN <<"observer hallucination signal">> ELSE <<>>)
         \o (IF det.evasive THEN <<"evasive phrasing/short answer">> ELSE <<>>)
    IN  IF reason_parts # <<>> THEN reason_parts ELSE <<"no issues detected">>

----------------------------------------------------------------------------
(* app/policies/fallbacks.py *)

\* a plausible slip: the fallback leaves the difficulty where it is
fallback_observer_keeps_difficulty(s) ==
    [summary |-> "Fallback observer: no LLM available.",
     answer_quality |-> [correctness |-> "unknown", confidence |-> "low"],
     detected_claims |-> <<>>,
     skill_updates |-> <<>>,
     difficulty_delta |-> 0,
     next_action |-> [type |-> "clarify", topic |-> "general", instruction_to_interviewer |-> "T:clarify_basics"],
     robustness |-> [off_topic |-> FALSE, role_reversal |-> FALSE, hallucination_claim |-> FALSE, evasive |-> FALSE]]

fallback_observer(s) ==
    LET topic_state == Get(s, "topic_state", <<>>)
        current == Get(topic_state, "current_topic", None)
        topic == IF Truthy(current) THEN current ELSE "general"
    IN  [summary |-> "Fallback observer: no LLM available.",
         answer_quality |-> [correctness |-> "unknown", confidence |-> "low"],
         detected_claims |-> <<>>,
         skill_updates |-> <<>>,
         difficulty_delta |-> -1,
         next_action |-> [type |-> "clarify", topic |-> topic, instruction_to_interviewer |-> "T:clarify_basics"],
         robustness |-> [off_topic |-> FALSE, role_reversal |-> FALSE, hallucination_claim |-> FALSE, evasive |-> FALSE]]

\* a plausible slip: no default prompt when the bank has no question of the difficulty
fallback_interviewer_no_default_prompt(s) ==
    LET difficulty == Get(s, "difficulty", 1)
        topic_state == Get(s, "topic_state", <<>>)
        current == Get(topic_state, "current_topic", None)
        topic == IF Truthy(current) THEN current ELSE select_next_topic(Get(s, "skill_matrix", <<>>), topic_state)
        by_topic == get_candidates(topic, difficulty, None)
        candidates == IF by_topic # <<>> THEN by_topic ELSE get_candidates(None, difficulty, None)
        prompt == IF candidates # <<>> THEN candidates[1].prompt ELSE <<>>
    IN  [agent_visible_message |-> prompt,
         metadata |-> [topic |-> topic, intent |-> "ask", difficulty |-> difficulty]]

fallback_interviewer(s) ==
    LET difficulty == Get(s, "difficulty", 1)
        topic_state == Get(s, "topic_state", <<>>)
        current == Get(topic_state, "current_topic", None)
        topic == IF Truthy(current) THEN current ELSE select_next_topic(Get(s, "skill_matrix", <<>>), topic_state)
        by_topic == get_candidates(topic, difficulty, None)
        candidates == IF by_topic # <<>> THEN by_topic ELSE get_candidates(None, difficulty, None)
        prompt == IF candidates # <<>> THEN candidates[1].prompt ELSE DEFAULT_PROMPT
    IN  [agent_visible_message |-> prompt,
         metadata |-> [topic |-> topic, intent |-> "ask", difficulty |-> difficulty]]

fallback_factcheck(claim) ==
    [label |-> "uncertain", confidence |-> 50,
     correction |-> "T:no_confirmation", explanation |-> "T:not_enough_grounds",
     safe_response |-> <<"T:disputable_claim">>, sources |-> <<>>]

fallback_final_feedback(s) ==
    [Decision |-> [Grade |-> "Junior", HiringRecommendation |-> "No Hire", ConfidenceScore |-> 20],
     HardSkills |-> [ConfirmedSkills |-> <<>>, KnowledgeGaps |-> <<>>],
     SoftSkills |-> [Clarity |-> "Medium", Honesty |-> "Medium", Engagement |-> "Medium", Notes |-> ""],
     Roadmap |-> [NextSteps |-> <<[topic |-> "T:basics", why |-> "T:insufficient_data", resources |-> <<"Python docs: basics">>]>>],
     Summary |-> <<"T:insufficient_data_for_decision">>]

----------------------------------------------------------------------------
(* app/llm/schemas.py: what model_validate accepts, by role *)

\* len() of the texts the model keeps as one token: the prompts of the bank and the default prompt
PROMPT_LENGTHS ==
       ("P:py_types_1" :> 58) @@ ("P:py_types_1_simplify" :> 29) @@ ("P:py_types_1_hint" :> 75)
    @@ ("P:py_iter_2" :> 62) @@ ("P:py_iter_2_clarify" :> 59) @@ ("P:sql_join_1" :> 49)
    @@ ("P:sql_join_1_simplify" :> 48) @@ ("P:py_oop_3" :> 72) @@ ("P:sql_index_3" :> 50)
    @@ ("P:git_rebase_1" :> 52) @@ ("P:git_rebase_1_clarify" :> 39)
    @@ ("T:tell_me_about_your_experience" :> 36)

TextLength(text) ==
    IF Len(text) = 1 /\ text[1] \in DOMAIN PROMPT_LENGTHS THEN PROMPT_LENGTHS[text[1]] ELSE Len(text)

INTERVIEWER_MESSAGE_MIN_LEN == 10
INTERVIEWER_MESSAGE_MAX_LEN == 1200

ObserverOutput_model_validate(data) ==
    /\ data.difficulty_delta \in -2..2
    /\ data.next_action.type # None
    /\ data.next_action.topic # None
    /\ Truthy(data.next_action.instruction_to_interviewer)
    /\ \A flag \in DOMAIN data.robustness : data.robustness[flag] \in BOOLEAN

InterviewerOutput_model_validate(data) ==
    /\ TextLength(Strip(data.agent_visible_message)) >= INTERVIEWER_MESSAGE_MIN_LEN
    /\ TextLength(data.agent_visible_message) <= INTERVIEWER_MESSAGE_MAX_LEN
    /\ data.metadata.topic # None
    /\ data.metadata.intent # None
    /\ data.metadata.difficulty \in MIN_DIFFICULTY..MAX_DIFFICULTY

FactCheckVerdict_model_validate(data) ==
    /\ data.label \in {"true", "false", "uncertain", "misleading"}
    /\ data.confidence \in 0..100
    /\ Strip(data.safe_response) # <<>>

FinalFeedback_model_validate(data) ==
    /\ data.Decision.Grade \in {"Junior", "Middle", "Senior"}
    /\ data.Decision.HiringRecommendation \in {"Hire", "No Hire", "Strong Hire"}
    /\ data.Decision.ConfidenceScore \in 0..100
    /\ \A k \in {"Clarity", "Honesty", "Engagement"} : data.SoftSkills[k] \in {"Low", "Medium", "High"}
    /\ data.HardSkills.KnowledgeGaps # <<>> => data.Roadmap.NextSteps # <<>>

StopIntentOutput_model_validate(data) ==
    /\ data.stop \in BOOLEAN
    /\ data.confidence \in 0..100
    /\ Truthy(data.rationale)

CandidateProfileOutput_model_validate(data) ==
    {"name", "level", "position", "skills"} \subseteq DOMAIN data

STOP_INTENT_FALLBACK == [stop |-> FALSE, confidence |-> 0, rationale |-> "Fallback: classifier unavailable."]

----------------------------------------------------------------------------
(* app/agents/profile_extractor.py *)

_LEVEL_MAP ==
       (<<"i", "n", "t", "e", "r", "n">> :> <<"I", "n", "t", "e", "r", "n">>)
    @@ (<<"j", "u", "n", "i", "o", "r">> :> <<"J", "u", "n", "i", "o", "r">>)
    @@ (<<"j", "r">> :> <<"J", "u", "n", "i", "o", "r">>)
    @@ (<<"m", "i", "d", "d", "l", "e">> :> <<"M", "i", "d", "d", "l", "e">>)
    @@ (<<"m", "i", "d">> :> <<"M", "i", "d", "d", "l", "e">>)
    @@ (<<"s", "e", "n", "i", "o", "r">> :> <<"S", "e", "n", "i", "o", "r">>)
    @@ (<<"s", "r">> :> <<"S", "e", "n", "i", "o", "r">>)
    @@ (<<"l", "e", "a", "d">> :> <<"L", "e", "a", "d">>)
    @@ (<<"u", "n", "k", "n", "o", "w", "n">> :> <<"U", "n", "k", "n", "o", "w", "n">>)

SKILL_MAPPING ==
       (<<"p", "y", "t", "h", "o", "n">> :> <<"P", "y", "t", "h", "o", "n">>)
    @@ (<<"c", "+", "+">> :> <<"C", "+", "+">>)
    @@ (<<"c", "p", "p">> :> <<"C", "+", "+">>)
    @@ (<<"c", "#">> :> <<"C", "#">>)
    @@ (<<"s", "q", "l">> :> <<"S", "Q", "L">>)
    @@ (<<"g", "i", "t">> :> <<"G", "i", "t">>)
    @@ (<<"q", "t">> :> <<"Q", "t">>)
    @@ (<<"d", "j", "a", "n", "g", "o">> :> <<"D", "j", "a", "n", "g", "o">>)

UNKNOWN_LEVEL == <<"U", "n", "k", "n", "o", "w", "n">>

_normalize_level(level) ==
    LET key == Lower(Strip(level))
    IN  IF key \in DOMAIN _LEVEL_MAP THEN _LEVEL_MAP[key]
        ELSE IF level # <<>> THEN level ELSE UNKNOWN_LEVEL

RECURSIVE NormalizeSkillsFrom(_, _, _)
NormalizeSkillsFrom(skills, normalized, seen) ==
    IF skills = <<>> THEN normalized
    ELSE LET s == Strip(Head(skills))
             s_norm == Lower(s)
             mapped == IF s_norm \in DOMAIN SKILL_MAPPING THEN SKILL_MAPPING[s_norm] ELSE s
         IN  IF s = <<>> \/ s_norm \in seen THEN NormalizeSkillsFrom(Tail(skills), normalized, seen)
             ELSE NormalizeSkillsFrom(Tail(skills), Append(normalized, mapped), seen \cup {s_norm})

_normalize_skills(skills) == NormalizeSkillsFrom(skills, <<>>, {})

\* str.replace(old, "") for a non-empty old
RECURSIVE RemoveAll(_, _)
RemoveAll(s, old) ==
    IF Len(s) < Len(old) THEN s
    ELSE IF SubSeq(s, 1, Len(old)) = old THEN RemoveAll(SubSeq(s, Len(old) + 1, Len(s)), old)
    ELSE <<Head(s)>> \o RemoveAll(Tail(s), old)

\* " ".join(s.split())
RECURSIVE JoinWords(_)
JoinWords(s) ==
    LET t == LStrip(s)
    IN  IF t = <<>> THEN <<>>
        ELSE IF \A i \in DOMAIN t : ~IsSpace(t[i]) THEN t
        ELSE LET i == CHOOSE j \in DOMAIN t : IsSpace(t[j]) /\ \A k \in 1..(j - 1) : ~IsSpace(t[k])
                 rest == JoinWords(SubSeq(t, i + 1, Len(t)))
             IN  IF rest = <<>> THEN SubSeq(t, 1, i - 1) ELSE SubSeq(t, 1, i - 1) \o <<" ">> \o rest

_strip_level_from_position(position, level) ==
    LET lvl == Strip(level)
        lowered == Strip(RemoveAll(Lower(position), Lower(lvl)))
    IN  IF lvl = <<>> THEN Strip(position)
        ELSE IF JoinWords(lowered) # <<>> THEN JoinWords(lowered) ELSE Strip(position)

PROFILE_FALLBACK ==
    [name |-> "", level |-> UNKNOWN_LEVEL, position |-> <<>>, skills |-> <<>>,
     confidence |-> <<>>, assumptions |-> <<"LLM extraction failed">>]

\* llm: the validated CandidateProfileOutput, or LLMCallError
extract_candidate_profile_llm(text, llm) ==
    LET output == IF llm = LLMCallError THEN PROFILE_FALLBACK ELSE llm
        level == _normalize_level(output.level)
    IN  [name |-> output.name,
         level |-> level,
         position |-> _strip_level_from_position(output.position, level),
         skills |-> _normalize_skills(output.skills),
         confidence |-> output.confidence,
         assumptions |-> output.assumptions]

----------------------------------------------------------------------------
(* app/agents: each wrapper returns the validated output of safe_call_for_json, *)
(* or the role's fallback when it raised LLMCallError                           *)

run_stop_intent(s, llm) ==
    IF Get(s, "user_message", <<>>) = <<>>
    THEN [stop |-> FALSE, confidence |-> 0, rationale |-> "empty message"]
    ELSE IF llm = LLMCallError THEN STOP_INTENT_FALLBACK
    ELSE llm

run_observer(s, llm) == IF llm = LLMCallError THEN fallback_observer(s) ELSE llm

\* run_interviewer lines 43-55: what of the plan of the turn goes into the request
interviewer_payload(s) ==
    [action_type |-> Get(s, "action_type", None),
     planned_question |-> Get(s, "planned_question", NoneRec),
     planned_response |-> Get(s, "planned_response", NoneRec),
     factcheck_json |-> Get(s, "factcheck_json", NoneRec)]

run_interviewer(s, llm) == IF llm = LLMCallError THEN fallback_interviewer(s) ELSE llm

run_factchecker(s, claim, llm) == IF llm = LLMCallError THEN fallback_factcheck(claim) ELSE llm

run_hiring_manager(feedback_input, llm) ==
    IF llm = LLMCallError THEN fallback_final_feedback(feedback_input) ELSE llm

\* the except branch of a wrapper returns <Schema>.model_validate(fallback): a fallback the
\* schema rejects raises a ValidationError out of the wrapper, and so out of the node
wrapper_raises(llm, fallback_validates) == llm = LLMCallError /\ ~fallback_validates

----------------------------------------------------------------------------
(* app/logging/interview_logger.py and app/state/schema.py *)

DEFAULT_PARTICIPANT_NAME == "T:participant"

\* a plausible slip: one log file for every session
make_log_path_ignores_session(session_id) == <<"logs", "interview_log.json">>

\* app/logging/paths.py: os.path.join of the components
make_log_path(session_id) == <<"logs", session_id, "interview_log.json">>

\* CandidateProfile.model_validate of a dict, then model_dump: the defaults of missing fields
CandidateProfile_model_validate(data) ==
    [name |-> Get(data, "name", None),
     level |-> IF Get(data, "level", <<>>) # <<>> THEN data.level ELSE <<"U", "n", "k", "n", "o", "w", "n">>,
     position |-> Get(data, "position", <<>>),
     skills |-> Get(data, "skills", <<>>),
     confidence |-> Get(data, "confidence", <<>>),
     assumptions |-> Get(data, "assumptions", <<>>)]

\* the log written by init_log when no file exists yet
init_log(candidate_profile) ==
    [participant_name |-> DEFAULT_PARTICIPANT_NAME, candidate_profile |-> candidate_profile,
     turns |-> <<>>, final_feedback |-> NoneRec]

\* internal thoughts are a list of lines; a text with no line is blank
\* TurnLog raises on blank internal_thoughts, append_turn on a turn id that does not grow
\* a plausible slip: a turn id equal to the last recorded one is let through
append_turn_raises_on_smaller_only(lg, turn_id, internal_thoughts) ==
    \/ internal_thoughts = <<>>
    \/ lg.turns # <<>> /\ turn_id < lg.turns[Len(lg.turns)].turn_id

append_turn_raises(lg, turn_id, internal_thoughts) ==
    \/ internal_thoughts = <<>>
    \/ lg.turns # <<>> /\ turn_id <= lg.turns[Len(lg.turns)].turn_id

append_turn(lg, turn_id, agent_visible_message, user_message, internal_thoughts) ==
    [lg EXCEPT !.turns = Append(@, [turn_id |-> turn_id,
                                    agent_visible_message |-> agent_visible_message,
                                    user_message |-> user_message,
                                    internal_thoughts |-> internal_thoughts]),
               !.participant_name = DEFAULT_PARTICIPANT_NAME]

set_final_feedback(lg, final_feedback) ==
    [lg EXCEPT !.final_feedback = final_feedback, !.participant_name = DEFAULT_PARTICIPANT_NAME]

set_candidate_profile(lg, candidate_profile) ==
    [lg EXCEPT !.candidate_profile = candidate_profile, !.participant_name = DEFAULT_PARTICIPANT_NAME]

----------------------------------------------------------------------------
(* app/evaluation/feedback_inputs.py *)

_collect_notable_behaviors(turns) ==
    LET thoughts(i) == turns[i].internal_thoughts
        routes == UNION {{thoughts(i)[j].route :
                            j \in {k \in DOMAIN thoughts(i) : thoughts(i)[k].tag = "RobustnessDetector"}} :
                         i \in DOMAIN turns}
    IN  {b \in {"hallucination claim", "role reversal", "off topic attempt"} :
            \/ b = "hallucination claim" /\ "hallucination" \in routes
            \/ b = "role reversal" /\ "answer_candidate" \in routes
            \/ b = "off topic attempt" /\ "refocus" \in routes}

build_feedback_input(s, log_data) ==
    LET turns == log_data.turns
        skill_matrix == Get(s, "skill_matrix", <<>>)
    IN  [session_id |-> Get(s, "session_id", None),
         candidate_profile |-> Get(s, "candidate_profile", NoneRec),
         final_difficulty |-> Get(s, "difficulty", 0),
         skill_matrix |-> skill_matrix,
         turns |-> [i \in DOMAIN turns |->
                      [turn_id |-> turns[i].turn_id,
                       question |-> turns[i].agent_visible_message,
                       answer |-> turns[i].user_message,
                       notes |-> SubSeq(turns[i].internal_thoughts, 1, Min(2, Len(turns[i].internal_thoughts)))]],
         highlights |-> [confirmed |-> {t \in DOMAIN skill_matrix : skill_matrix[t].status = "confirmed"},
                         gaps |-> {t \in DOMAIN skill_matrix : skill_matrix[t].status = "gap"},
                         notable_behaviors |-> _collect_notable_behaviors(turns)]]

----------------------------------------------------------------------------
(* app/graph/nodes.py: each node as the partial update it returns *)

intake_node_raises(s) ==
    "candidate_profile" \notin DOMAIN s \/ s.candidate_profile = NoneRec

intake_node(s) ==
    [candidate_profile |-> CandidateProfile_model_validate(s.candidate_profile),
     asked_questions |-> Get(s, "asked_questions", <<>>),
     history |-> Get(s, "history", <<>>),
     difficulty |-> Get(s, "difficulty", 1),
     stop_requested |-> Get(s, "stop_requested", FALSE),
     skill_matrix |-> Get(s, "skill_matrix", <<>>)]

stop_detector_node(s) ==
    LET user_message == Lower(Get(s, "user_message", <<>>))
    IN  [stop_requested |-> \E phrase \in STOP_PHRASES : Contains(user_message, phrase)]

STOP_CONFIDENCE_THRESHOLD == 70

\* a plausible slip: the threshold test is strict
stop_by_intent_strict(output) == output.stop /\ output.confidence > STOP_CONFIDENCE_THRESHOLD

stop_by_intent(output) == output.stop /\ output.confidence >= STOP_CONFIDENCE_THRESHOLD

\* appending one line to the internal thoughts
AddThought(s, line) == Append(Get(s, "internal_thoughts", <<>>), line)

stop_intent_node(s, llm) ==
    IF Strip(Get(s, "user_message", <<>>)) = <<>>
    THEN [stop_requested |-> FALSE,
          stop_intent |-> [stop |-> FALSE, confidence |-> 0, rationale |-> "empty input"]]
    ELSE LET output == run_stop_intent(s, llm)
             stop_by_phrases == stop_detector_node(s).stop_requested
             line == [tag |-> "StopIntent", stop |-> output.stop, confidence |-> output.confidence,
                      reason |-> output.rationale]
         IN  [stop_requested |-> stop_by_intent(output) \/ stop_by_phrases,
              stop_intent |-> output,
              internal_thoughts |-> AddThought(s, line)]

\* a plausible slip: the profile_extracted flag is not consulted
profile_extract_runs_unflagged(s) ==
    /\ Get(s, "turn_id", -1) = -1
    /\ Strip(Get(s, "user_message", <<>>)) # <<>>

\* a plausible slip: the extractor is called on every message that is not blank
profile_extract_runs_every_turn(s) ==
    Strip(Get(s, "user_message", <<>>)) # <<>>

\* profile_extract_node calls the extractor (it returns {} otherwise)
profile_extract_runs(s) ==
    /\ ~Get(s, "profile_extracted", FALSE)
    /\ Get(s, "turn_id", -1) = -1
    /\ Strip(Get(s, "user_message", <<>>)) # <<>>

profile_extract_node(s, llm) ==
    IF ~profile_extract_runs(s) THEN <<>>
    ELSE [candidate_profile |-> extract_candidate_profile_llm(Strip(s.user_message), llm),
          profile_extracted |-> TRUE]

_format_internal_thoughts(observer_output) ==
    << [tag |-> "Observer", summary |-> observer_output.summary, difficulty |-> observer_output.difficulty_delta],
       [tag |-> "Observer->Interviewer", instruction |-> observer_output.next_action.instruction_to_interviewer],
       [tag |-> "Robustness", flags |-> observer_output.robustness] >>

\* a plausible slip: the candidate's message is handed to the observer but not kept in the history
observer_evaluate_node_drops_message(s, llm) ==
    LET user_message == Get(s, "user_message", <<>>)
        history == Get(s, "history", <<>>)
        seen == IF user_message # <<>>
                THEN Append(history, [role |-> "candidate", content |-> user_message])
                ELSE history
        observer_json == run_observer(Merge(s, [history |-> seen]), llm)
    IN  [observer_json |-> observer_json,
         risk_flags |-> observer_json.robustness,
         skill_matrix |-> apply_skill_updates(Get(s, "skill_matrix", <<>>), observer_json.skill_updates),
         internal_thoughts |-> _format_internal_thoughts(observer_json),
         history |-> history]

observer_evaluate_node(s, llm) ==
    LET user_message == Get(s, "user_message", <<>>)
        history == IF user_message # <<>>
                   THEN Append(Get(s, "history", <<>>), [role |-> "candidate", content |-> user_message])
                   ELSE Get(s, "history", <<>>)
        observer_json == run_observer(Merge(s, [history |-> history]), llm)
    IN  [observer_json |-> observer_json,
         risk_flags |-> observer_json.robustness,
         skill_matrix |-> apply_skill_updates(Get(s, "skill_matrix", <<>>), observer_json.skill_updates),
         internal_thoughts |-> _format_internal_thoughts(observer_json),
         history |-> history]

robustness_detect_node(s) ==
    LET det == detect_robustness(s)
        route == choose_route(Get(s, "stop_requested", FALSE), det)
        line == [tag |-> "RobustnessDetector", route |-> route, reason |-> detect_robustness_reason(det)]
    IN  [robustness_det |-> Merge(det, [reason |-> detect_robustness_reason(det)]),
         route |-> route,
         internal_thoughts |-> AddThought(s, line)]

\* the claim string factcheck_node hands to the fact checker
factcheck_claim(s) ==
    LET det == Get(s, "robustness_det", <<>>)
        suspicious == Get(det, "suspicious_claim", NoneMsg)
        detected == Get(Get(s, "observer_json", <<>>), "detected_claims", <<>>)
        first == IF suspicious \in {NoneMsg, <<>>} /\ detected # <<>> THEN Get(detected[1], "claim", NoneMsg)
                 ELSE suspicious
    IN  IF first \in {NoneMsg, <<>>} THEN Get(s, "user_message", <<>>) ELSE first

factcheck_node(s, llm) ==
    LET factcheck_json == run_factchecker(s, factcheck_claim(s), llm)
        line == [tag |-> "FactChecker", label |-> factcheck_json.label,
                 confidence |-> factcheck_json.confidence, correction |-> factcheck_json.correction]
    IN  [factcheck_json |-> factcheck_json,
         internal_thoughts |-> AddThought(s, line)]

SPECIAL_ROUTES == {"answer_candidate", "refocus", "hallucination"}
QUESTION_TYPES == {"ask", "clarify", "simplify", "hint"}
LAST_TOPICS_SIZE == 5

\* a plausible slip: the route does not override the quality-based decision
policy_action_type_ignores_route(s) ==
    decide_action_type(Get(s, "observer_json", <<>>), Get(s, "action_type", None))

\* policy_update_node lines 226-235: the action type
policy_action_type(s) ==
    LET route == IF Truthy(Get(s, "route", None)) THEN s.route ELSE "normal"
    IN  IF route \in SPECIAL_ROUTES THEN route
        ELSE decide_action_type(Get(s, "observer_json", <<>>), Get(s, "action_type", None))

\* policy_update_node lines 250-264: exact pick, same-difficulty pools, then every level
RECURSIVE FirstUnaskedOfLevels(_, _)
FirstUnaskedOfLevels(asked_questions, level) ==
    IF level > MAX_DIFFICULTY THEN NoneRec
    ELSE LET found == enforce_no_repeat(NoneRec, asked_questions, get_candidates(None, level, None))
         IN  IF found # NoneRec THEN found ELSE FirstUnaskedOfLevels(asked_questions, level + 1)

plan_question(asked_questions, selected_topic, difficulty, followup_type) ==
    LET exact == pick_next_question(asked_questions, selected_topic, difficulty, followup_type)
        typed_pool == get_candidates(None, difficulty, followup_type)
        fallback_pool == IF typed_pool # <<>> THEN typed_pool ELSE get_candidates(None, difficulty, None)
        relaxed == enforce_no_repeat(NoneRec, asked_questions, fallback_pool)
    IN  IF exact # NoneRec THEN exact
        ELSE IF relaxed # NoneRec THEN relaxed
        ELSE FirstUnaskedOfLevels(asked_questions, 1)

\* policy_update_node line 235
policy_difficulty(s) ==
    apply_difficulty(Get(s, "difficulty", 1), Get(Get(s, "observer_json", <<>>), "difficulty_delta", 0))

\* policy_update_node lines 237-248: the topic selected before any loop is looked for
\* a plausible slip: the suggested topic always wins
policy_selected_topic_soft_always(s) ==
    LET raw_soft == Get(Get(Get(s, "observer_json", <<>>), "next_action", <<>>), "topic", None)
    IN  IF Truthy(raw_soft) /\ Truthy(normalize_topic(raw_soft)) THEN normalize_topic(raw_soft)
        ELSE select_next_topic(Get(s, "skill_matrix", <<>>), Get(s, "topic_state", <<>>))

policy_selected_topic(s) ==
    LET observer_json == Get(s, "observer_json", <<>>)
        topic_state0 == Get(s, "topic_state", <<>>)
        last_topics == Get(topic_state0, "last_topics", <<>>)
        raw_soft == Get(Get(observer_json, "next_action", <<>>), "topic", None)
        soft_topic == IF Truthy(raw_soft) THEN normalize_topic(raw_soft) ELSE None
        ranked_topic == select_next_topic(Get(s, "skill_matrix", <<>>), topic_state0)
        recent == LastN(last_topics, 2)
    IN  IF Truthy(soft_topic) /\ ~(\E i \in DOMAIN recent : recent[i] = soft_topic)
        THEN soft_topic ELSE ranked_topic

\* a plausible slip: the asked set is read from a key the state does not have
policy_asked_questions_wrong_key(s) ==
    {Get(s, "asked", <<>>)[i] : i \in DOMAIN Get(s, "asked", <<>>)}

\* policy_update_node line 250
policy_asked_questions(s) ==
    {Get(s, "asked_questions", <<>>)[i] : i \in DOMAIN Get(s, "asked_questions", <<>>)}

\* policy_update_node lines 251-254
policy_followup_type(s) ==
    LET action_type == policy_action_type(s)
    IN  IF action_type \in SPECIAL_ROUTES THEN "ask"
        ELSE IF action_type \in QUESTION_TYPES THEN action_type ELSE "ask"

\* policy_update_node lines 255-264: the question planned before any loop is looked for
policy_first_plan(s) ==
    plan_question(policy_asked_questions(s), policy_selected_topic(s), policy_difficulty(s), policy_followup_type(s))

\* policy_update_node lines 266-267: detect_loop is asked about a planned prompt and answers yes
policy_loop_declared(s) ==
    LET planned0 == policy_first_plan(s)
    IN  planned0 # NoneRec /\ detect_loop(Get(s, "topic_state", <<>>), planned0.prompt)

\* a plausible slip: the planned response of the state is carried over
policy_planned_response_kept(s) == Get(s, "planned_response", NoneRec)

\* policy_update_node line 284
policy_planned_response(s) == NoneRec

policy_update_node(s) ==
    LET action_type == policy_action_type(s)
        difficulty == policy_difficulty(s)
        topic_state0 == Get(s, "topic_state", <<>>)
        last_topics == Get(topic_state0, "last_topics", <<>>)
        skill_matrix == Get(s, "skill_matrix", <<>>)
        planned0 == policy_first_plan(s)
        \* detect_loop records the hash in topic_state whenever a question was planned
        topic_state1 == IF planned0 # NoneRec
                        THEN Merge(topic_state0, [last_prompts_hashes |-> detect_loop_hashes(topic_state0, planned0.prompt)])
                        ELSE topic_state0
        loop == policy_loop_declared(s)
        selected_topic == IF loop THEN break_loop(skill_matrix, topic_state1) ELSE policy_selected_topic(s)
        planned_question == IF loop THEN pick_next_question(policy_asked_questions(s), selected_topic, difficulty, policy_followup_type(s))
                            ELSE planned0
        coverage == Get(topic_state1, "coverage", <<>>)
        topic_state == IF Truthy(selected_topic)
                       THEN Merge(topic_state1,
                                  [current_topic |-> selected_topic,
                                   last_topics |-> LastN(Append(last_topics, selected_topic), LAST_TOPICS_SIZE),
                                   coverage |-> Merge(coverage, (selected_topic :> (Get(coverage, selected_topic, 0) + 1)))])
                       ELSE topic_state1
    IN  [difficulty |-> difficulty,
         action_type |-> action_type,
         planned_question |-> planned_question,
         topic_state |-> topic_state,
         planned_response |-> policy_planned_response(s)]

answer_candidate_node(s) ==
    LET det == Get(s, "robustness_det", <<>>)
        question == Get(det, "candidate_question", NoneMsg)
    IN  [action_type |-> "answer_candidate",
         planned_response |->
            [type |-> "answer_candidate",
             candidate_question |-> IF question \in {NoneMsg, <<>>} THEN Get(s, "user_message", <<>>) ELSE question,
             answer_guidance |-> "T:answer_briefly_then_return"]]

refocus_node(s) ==
    LET planned_question == Get(s, "planned_question", NoneRec)
        current == Get(Get(s, "topic_state", <<>>), "current_topic", None)
        planned_topic == Get(planned_question, "topic", None)
        topic == IF Truthy(current) THEN current
                 ELSE IF Truthy(planned_topic) THEN planned_topic ELSE DEFAULT_REFOCUS_TOPIC
    IN  [action_type |-> "refocus",
         planned_response |->
            [type |-> "refocus",
             message |-> <<"T:lets_return_to", topic>>,
             followup_question |-> Get(planned_question, "prompt", NoneMsg)]]

hallucination_node(s) ==
    LET det == Get(s, "robustness_det", <<>>)
        planned_question == Get(s, "planned_question", NoneRec)
        claim == Get(det, "suspicious_claim", NoneMsg)
        suspicious == IF claim \in {NoneMsg, <<>>} THEN Get(s, "user_message", <<>>) ELSE claim
        factcheck_json == Get(s, "factcheck_json", <<>>)
        safe == Get(factcheck_json, "safe_response", <<>>)
    IN  [action_type |-> "hallucination",
         planned_response |->
            [type |-> "hallucination",
             suspicious_claim |-> suspicious,
             factcheck |-> factcheck_json,
             message |-> IF safe # <<>> THEN safe ELSE DEFAULT_SAFE_RESPONSE,
             followup_question |-> Get(planned_question, "prompt", NoneMsg)]]

\* a plausible slip: the planned id becomes last_question_id but is not added to the asked ids
interviewer_generate_node_asked_unrecorded(s, llm) ==
    LET asked_questions == Get(s, "asked_questions", <<>>)
        output == run_interviewer(s, llm)
        message == output.agent_visible_message
        metadata == output.metadata
        history == Append(Get(s, "history", <<>>), [role |-> "interviewer", content |-> message])
        planned_question == Get(s, "planned_question", NoneRec)
        question_id == Get(planned_question, "question_id", None)
        is_new == question_id # None /\ ~(\E i \in DOMAIN asked_questions : asked_questions[i] = question_id)
        topic_state0 == Get(s, "topic_state", <<>>)
    IN  [agent_visible_message |-> message,
         history |-> history,
         asked_questions |-> asked_questions,
         topic_state |-> IF metadata.topic # "" THEN Merge(topic_state0, [current_topic |-> metadata.topic])
                         ELSE topic_state0,
         interviewer_metadata |-> metadata,
         last_question_id |-> IF is_new THEN question_id ELSE Get(s, "last_question_id", None)]

interviewer_generate_node(s, llm) ==
    LET asked_questions == Get(s, "asked_questions", <<>>)
        output == run_interviewer(s, llm)
        message == output.agent_visible_message
        metadata == output.metadata
        history == Append(Get(s, "history", <<>>), [role |-> "interviewer", content |-> message])
        planned_question == Get(s, "planned_question", NoneRec)
        question_id == Get(planned_question, "question_id", None)
        is_new == question_id # None /\ ~(\E i \in DOMAIN asked_questions : asked_questions[i] = question_id)
        topic_state0 == Get(s, "topic_state", <<>>)
    IN  [agent_visible_message |-> message,
         history |-> history,
         asked_questions |-> IF is_new THEN Append(asked_questions, question_id) ELSE asked_questions,
         topic_state |-> IF metadata.topic # "" THEN Merge(topic_state0, [current_topic |-> metadata.topic])
                         ELSE topic_state0,
         interviewer_metadata |-> metadata,
         last_question_id |-> IF is_new THEN question_id ELSE Get(s, "last_question_id", None)]

final_feedback_node(s, log_data, llm) ==
    [final_feedback |-> run_hiring_manager(build_feedback_input(s, log_data), llm)]

\* the turn logger_node appends: (turn_id, agent message, user message, internal thoughts)
\* a plausible slip: the turn is logged with the message generated in this invocation
logger_turn_same_invocation(s) ==
    LET last == Get(s, "agent_visible_message", NoneMsg)
    IN  [turn_id |-> Get(s, "turn_id", 0) + 1,
         agent_visible_message |-> normalize_text(IF last = NoneMsg THEN <<>> ELSE last, AGENT_MESSAGE_MAX_LEN),
         user_message |-> normalize_text(Get(s, "user_message", <<>>), USER_MESSAGE_MAX_LEN),
         internal_thoughts |-> Get(s, "internal_thoughts", <<>>)]

logger_turn(s) ==
    LET last == Get(s, "last_agent_message", NoneMsg)
    IN  [turn_id |-> Get(s, "turn_id", 0) + 1,
         agent_visible_message |-> normalize_text(IF last = NoneMsg THEN <<>> ELSE last, AGENT_MESSAGE_MAX_LEN),
         user_message |-> normalize_text(Get(s, "user_message", <<>>), USER_MESSAGE_MAX_LEN),
         internal_thoughts |-> Get(s, "internal_thoughts", <<>>)]

\* a plausible slip: the turn counter is handed back as it came
logger_node_keeps_turn_id(s) ==
    [turn_id |-> Get(s, "turn_id", 0),
     last_agent_message |-> Get(s, "agent_visible_message", <<>>)]

logger_node(s) ==
    [turn_id |-> Get(s, "turn_id", 0) + 1,
     last_agent_message |-> Get(s, "agent_visible_message", <<>>)]

\* a plausible slip: the final logger counts a turn as logger_node does
final_logger_node_counts_turn(s) == [turn_id |-> Get(s, "turn_id", 0) + 1]

final_logger_node(s) == <<>>

----------------------------------------------------------------------------
(* app/graph/build.py: the edges *)

route_after_stop_detector(s) == IF Get(s, "stop_requested", FALSE) THEN "final" ELSE "continue"

route_after_policy(s) ==
    LET route == Get(s, "route", "normal")
    IN  IF route = "answer_candidate" THEN "answer_candidate"
        ELSE IF route = "refocus" THEN "refocus"
        ELSE IF route = "hallucination" THEN "hallucination"
        ELSE "normal"

END == "END"

\* a plausible slip: the edge between factcheck and hallucination is also added reversed
successor_loops_back(node, s) ==
    CASE node = "intake" -> "profile_extract"
      [] node = "profile_extract" -> "stop_intent"
      [] node = "stop_intent" ->
            IF route_after_stop_detector(s) = "final" THEN "final_feedback" ELSE "observer_evaluate"
      [] node = "final_feedback" -> "final_logger"
      [] node = "final_logger" -> END
      [] node = "observer_evaluate" -> "robustness_detect"
      [] node = "robustness_detect" -> "policy_update"
      [] node = "policy_update" ->
            (CASE route_after_policy(s) = "answer_candidate" -> "answer_candidate"
               [] route_after_policy(s) = "refocus" -> "refocus"
               [] route_after_policy(s) = "hallucination" -> "factcheck"
               [] OTHER -> "interviewer_generate")
      [] node = "factcheck" -> "hallucination"
      [] node = "hallucination" -> "factcheck"
      [] node \in {"answer_candidate", "refocus"} -> "interviewer_generate"
      [] node = "interviewer_generate" -> "logger"
      [] OTHER -> END

\* a plausible slip: the special-action step is taken from the flags' order of adaptability.py
successor_branch_swapped(node, s) ==
    CASE node = "intake" -> "profile_extract"
      [] node = "profile_extract" -> "stop_intent"
      [] node = "stop_intent" ->
            IF route_after_stop_detector(s) = "final" THEN "final_feedback" ELSE "observer_evaluate"
      [] node = "final_feedback" -> "final_logger"
      [] node = "final_logger" -> END
      [] node = "observer_evaluate" -> "robustness_detect"
      [] node = "robustness_detect" -> "policy_update"
      [] node = "policy_update" ->
            (CASE route_after_policy(s) = "answer_candidate" -> "refocus"
               [] route_after_policy(s) = "refocus" -> "answer_candidate"
               [] route_after_policy(s) = "hallucination" -> "factcheck"
               [] OTHER -> "interviewer_generate")
      [] node = "factcheck" -> "hallucination"
      [] node \in {"answer_candidate", "refocus", "hallucination"} -> "interviewer_generate"
      [] node = "interviewer_generate" -> "logger"
      [] OTHER -> END

\* the node the compiled graph runs after `node`, given the merged state
successor(node, s) ==
    CASE node = "intake" -> "profile_extract"
      [] node = "profile_extract" -> "stop_intent"
      [] node = "stop_intent" ->
            IF route_after_stop_detector(s) = "final" THEN "final_feedback" ELSE "observer_evaluate"
      [] node = "final_feedback" -> "final_logger"
      [] node = "final_logger" -> END
      [] node = "observer_evaluate" -> "robustness_detect"
      [] node = "robustness_detect" -> "policy_update"
      [] node = "policy_update" ->
            (CASE route_after_policy(s) = "answer_candidate" -> "answer_candidate"
               [] route_after_policy(s) = "refocus" -> "refocus"
               [] route_after_policy(s) = "hallucination" -> "factcheck"
               [] OTHER -> "interviewer_generate")
      [] node = "factcheck" -> "hallucination"
      [] node = "answer_candidate" -> "interviewer_generate"
      [] node = "refocus" -> "interviewer_generate"
      [] node = "hallucination" -> "interviewer_generate"
      [] node = "interviewer_generate" -> "logger"
      [] node = "logger" -> END

----------------------------------------------------------------------------
(* app/main.py: the state main() builds before the first graph.invoke *)

INITIAL_PROFILE ==
    [name |-> None, level |-> UNKNOWN_LEVEL, position |-> <<>>, skills |-> <<>>,
     confidence |-> <<>>, assumptions |-> <<>>]

INITIAL_TURN_ID == -1
INITIAL_DIFFICULTY == 1

InitialState ==
    [session_id |-> "session-1",
     turn_id |-> INITIAL_TURN_ID,
     candidate_profile |-> INITIAL_PROFILE,
     history |-> <<>>,
     log_path |-> make_log_path("session-1"),
     topic_state |-> [current_topic |-> None, last_topics |-> <<>>, coverage |-> <<>>],
     last_question_id |-> None,
     planned_question |-> NoneRec,
     planned_response |-> NoneRec,
     action_type |-> None,
     user_message |-> <<>>,
     agent_visible_message |-> <<>>,
     internal_thoughts |-> <<>>,
     asked_questions |-> <<>>,
     difficulty |-> INITIAL_DIFFICULTY,
     stop_requested |-> FALSE,
     final_feedback |-> NoneRec,
     observer_json |-> <<>>,
     risk_flags |-> <<>>,
     skill_matrix |-> <<>>,
     interviewer_metadata |-> <<>>,
     robustness_det |-> <<>>,
     route |-> "normal",
     factcheck_json |-> <<>>,
     last_user_message |-> NoneMsg,
     stop_intent |-> <<>>,
     profile_extracted |-> FALSE,
     last_agent_message |-> GREETING]

InitialLog == init_log(INITIAL_PROFILE)

----------------------------------------------------------------------------
(* the outputs the agents' structured calls may deliver: any schema-valid  *)
(* record, or LLMCallError after the attempts are exhausted                *)

FLAGS == [off_topic : BOOLEAN, role_reversal : BOOLEAN, hallucination_claim : BOOLEAN, evasive : BOOLEAN]
NO_FLAGS == [off_topic |-> FALSE, role_reversal |-> FALSE, hallucination_claim |-> FALSE, evasive |-> FALSE]

ObserverOutput(quality, delta, topic, updates, claims, flags) ==
    [summary |-> "T:summary", answer_quality |-> quality, detected_claims |-> claims,
     skill_updates |-> updates, difficulty_delta |-> delta,
     next_action |-> [type |-> "ask", topic |-> topic, instruction_to_interviewer |-> "T:instruction"],
     robustness |-> flags]

GOOD_ANSWER == [correctness |-> "correct", confidence |-> "high"]
QUALITIES == {GOOD_ANSWER, [correctness |-> "partial", confidence |-> "medium"], [correctness |-> "wrong", confidence |-> "high"]}

\* a single turn: every combination of flags, three answer qualities, both ends of the delta range
OBSERVER_OUTPUTS ==
    {LLMCallError}
    \cup {ObserverOutput(q, d, "", <<>>, <<>>, f) : q \in QUALITIES, d \in {-2, 2}, f \in FLAGS}
    \cup {ObserverOutput(GOOD_ANSWER, 1, "Python_OOP", <<[topic |-> "python_types", status |-> "confirmed", evidence |-> "T:evidence"]>>, <<[claim |-> <<"x">>]>>, f) :
            f \in {NO_FLAGS, [NO_FLAGS EXCEPT !.hallucination_claim = TRUE]}}

\* a session of several turns: one output per route, and the fallback
SESSION_OBSERVER_OUTPUTS ==
    {LLMCallError,
     ObserverOutput(GOOD_ANSWER, 1, "", <<[topic |-> "python_types", status |-> "confirmed", evidence |-> "T:evidence"]>>, <<>>, NO_FLAGS),
     ObserverOutput(GOOD_ANSWER, 0, "", <<>>, <<>>, [NO_FLAGS EXCEPT !.role_reversal = TRUE]),
     ObserverOutput(GOOD_ANSWER, 0, "", <<>>, <<>>, [NO_FLAGS EXCEPT !.hallucination_claim = TRUE]),
     ObserverOutput(GOOD_ANSWER, 0, "", <<>>, <<>>, [NO_FLAGS EXCEPT !.off_topic = TRUE])}

StopIntentOutput(stop, confidence) == [stop |-> stop, confidence |-> confidence, rationale |-> "T:rationale"]

STOP_INTENT_OUTPUTS ==
    {LLMCallError, StopIntentOutput(TRUE, 85), StopIntentOutput(TRUE, 70), StopIntentOutput(TRUE, 69),
     StopIntentOutput(FALSE, 100)}

SESSION_STOP_INTENT_OUTPUTS == {LLMCallError, StopIntentOutput(TRUE, 85)}

INTERVIEWER_OUTPUTS ==
    {LLMCallError,
     [agent_visible_message |-> <<"T:next_question">>,
      metadata |-> [topic |-> "sql_joins", intent |-> "ask", difficulty |-> 2]]}

FACTCHECK_OUTPUTS ==
    {LLMCallError,
     [label |-> "false", confidence |-> 90, correction |-> "T:correction", explanation |-> "T:explanation",
      safe_response |-> <<"T:that_is_not_so">>, sources |-> <<>>]}

FinalFeedback(summary) ==
    [Decision |-> [Grade |-> "Middle", HiringRecommendation |-> "Hire", ConfidenceScore |-> 70],
     HardSkills |-> [ConfirmedSkills |-> <<"python_types">>, KnowledgeGaps |-> <<>>],
     SoftSkills |-> [Clarity |-> "High", Honesty |-> "High", Engagement |-> "Medium", Notes |-> ""],
     Roadmap |-> [NextSteps |-> <<>>],
     Summary |-> summary]

\* FinalFeedback.model_validate asks of Summary only that it is a string
HIRING_MANAGER_OUTPUTS == {LLMCallError, FinalFeedback(<<"T:solid_candidate">>), FinalFeedback(<<>>)}

PROFILE_OUTPUTS ==
    {LLMCallError,
     [name |-> "Anna", level |-> <<" ", "S", "R", " ">>, position |-> <<"S", "r", " ", "B", "a", "c", "k", "e", "n", "d", " ", " ", "D", "e", "v">>,
      skills |-> <<<<"p", "y", "t", "h", "o", "n">>, <<"P", "y", "t", "h", "o", "n", " ">>, <<"c", "p", "p">>>>, confidence |-> <<>>, assumptions |-> <<>>]}

\* messages a caller may put into the state
MESSAGES == {MSG_EMPTY, MSG_BLANK, MSG_ANSWER, MSG_QUESTION, MSG_STOP_PHRASE, MSG_STOP_UPPER, MSG_ALMOST_STOP}

\* lines the candidate may type at the prompt of the CLI
CLI_LINES == {MSG_BLANK, <<"<emoji>">>, MSG_ANSWER \o <<" ">>, MSG_STOP_UPPER}

----------------------------------------------------------------------------
(* One invocation of the compiled graph: a node runs, its partial update is *)
(* merged into the state (build._wrap), and the edges name the next node.   *)

NO_CALL == [fn |-> "none"]

Step(node, updates) ==
    /\ pc = node
    /\ state' = Merge(state, updates)
    /\ pc' = successor(node, state')
    /\ trace' = Append(trace, node)

\* an exception leaves graph.invoke; main() logs it and re-raises
Raise(node) ==
    /\ pc = node
    /\ pc' = "raised"
    /\ trace' = Append(trace, node)
    /\ UNCHANGED state

Intake ==
    /\ IF intake_node_raises(state) THEN Raise("intake") ELSE Step("intake", intake_node(state))
    /\ UNCHANGED <<log, invocations, extractor_calls, call>>

ProfileExtract(outputs) ==
    /\ pc = "profile_extract"
    /\ IF profile_extract_runs(state)
       THEN \E llm \in outputs :
               /\ extractor_calls' = extractor_calls + 1
               /\ IF wrapper_raises(llm, CandidateProfileOutput_model_validate(PROFILE_FALLBACK))
                  THEN Raise("profile_extract") /\ UNCHANGED log
                  ELSE /\ Step("profile_extract", profile_extract_node(state, llm))
                       /\ log' = set_candidate_profile(log, state'.candidate_profile)
       ELSE /\ Step("profile_extract", profile_extract_node(state, LLMCallError))
            /\ UNCHANGED <<log, extractor_calls>>
    /\ UNCHANGED <<invocations, call>>

StopIntent(outputs) ==
    /\ \E llm \in outputs :
          IF /\ Strip(Get(state, "user_message", <<>>)) # <<>>
             /\ wrapper_raises(llm, StopIntentOutput_model_validate(STOP_INTENT_FALLBACK))
          THEN Raise("stop_intent")
          ELSE Step("stop_intent", stop_intent_node(state, llm))
    /\ UNCHANGED <<log, invocations, extractor_calls, call>>

ObserverEvaluate(outputs) ==
    /\ \E llm \in outputs :
          IF wrapper_raises(llm, ObserverOutput_model_validate(fallback_observer(state)))
          THEN Raise("observer_evaluate")
          ELSE Step("observer_evaluate", observer_evaluate_node(state, llm))
    /\ UNCHANGED <<log, invocations, extractor_calls, call>>

RobustnessDetect ==
    /\ Step("robustness_detect", robustness_detect_node(state))
    /\ UNCHANGED <<log, invocations, extractor_calls, call>>

PolicyUpdate ==
    /\ Step("policy_update", policy_update_node(state))
    /\ UNCHANGED <<log, invocations, extractor_calls, call>>

AnswerCandidate ==
    /\ Step("answer_candidate", answer_candidate_node(state))
    /\ UNCHANGED <<log, invocations, extractor_calls, call>>

Refocus ==
    /\ Step("refocus", refocus_node(state))
    /\ UNCHANGED <<log, invocations, extractor_calls, call>>

Factcheck(outputs) ==
    /\ \E llm \in outputs :
          IF wrapper_raises(llm, FactCheckVerdict_model_validate(fallback_factcheck(factcheck_claim(state))))
          THEN Raise("factcheck")
          ELSE Step("factcheck", factcheck_node(state, llm))
    /\ UNCHANGED <<log, invocations, extractor_calls, call>>

Hallucination ==
    /\ Step("hallucination", hallucination_node(state))
    /\ UNCHANGED <<log, invocations, extractor_calls, call>>

InterviewerGenerate(outputs) ==
    /\ \E llm \in outputs :
          IF wrapper_raises(llm, InterviewerOutput_model_validate(fallback_interviewer(state)))
          THEN Raise("interviewer_generate")
          ELSE Step("interviewer_generate", interviewer_generate_node(state, llm))
    /\ UNCHANGED <<log, invocations, extractor_calls, call>>

Logger ==
    /\ pc = "logger"
    /\ LET turn == logger_turn(state)
       IN  IF append_turn_raises(log, turn.turn_id, turn.internal_thoughts)
           THEN Raise("logger") /\ UNCHANGED log
           ELSE /\ Step("logger", logger_node(state))
                /\ log' = append_turn(log, turn.turn_id, turn.agent_visible_message,
                                      turn.user_message, turn.internal_thoughts)
    /\ UNCHANGED <<invocations, extractor_calls, call>>

FinalFeedbackStep(outputs) ==
    /\ \E llm \in outputs :
          IF wrapper_raises(llm, FinalFeedback_model_validate(
                                 fallback_final_feedback(build_feedback_input(state, log))))
          THEN Raise("final_feedback")
          ELSE Step("final_feedback", final_feedback_node(state, log, llm))
    /\ UNCHANGED <<log, invocations, extractor_calls, call>>

FinalLogger ==
    /\ Step("final_logger", final_logger_node(state))
    /\ log' = set_final_feedback(log, Get(state, "final_feedback", NoneRec))
    /\ UNCHANGED <<invocations, extractor_calls, call>>

\* the invocation is over: it returned a state, or it raised
Done == pc \in {END, "raised"}

Executed(node) == \E i \in DOMAIN trace : trace[i] = node

----------------------------------------------------------------------------
(* Specification Spec: a session of the CLI (app/main.py) *)

MaxInvocations == 3

\* input(...).strip(), normalize_text, and the retry on an empty result
CliInput ==
    /\ pc \in {"cli_first", "cli_loop"}
    /\ invocations < MaxInvocations
    /\ \E line \in CLI_LINES :
          LET user_message == normalize_text(Strip(line), USER_MESSAGE_MAX_LEN)
          IN  IF user_message = <<>>
              THEN UNCHANGED <<state, pc, trace, invocations>>
              ELSE /\ state' = Merge(state, [user_message |-> user_message])
                   /\ pc' = "intake"
                   /\ trace' = <<>>
                   /\ invocations' = invocations + 1
    /\ UNCHANGED <<log, extractor_calls, call>>

\* main() lines 92 and 112-121: the stop test follows only the invocations of the loop
CliAfterInvoke ==
    /\ pc = END
    /\ state' = Merge(state, [last_user_message |-> Get(state, "user_message", NoneMsg)])
    /\ pc' = IF invocations > 1 /\ Get(state, "stop_requested", FALSE)
                /\ Get(state, "final_feedback", NoneRec) # NoneRec
             THEN "exit" ELSE "cli_loop"
    /\ UNCHANGED <<trace, log, invocations, extractor_calls, call>>

Init ==
    /\ state = InitialState
    /\ pc = "cli_first"
    /\ trace = <<>>
    /\ log = InitialLog
    /\ invocations = 0
    /\ extractor_calls = 0
    /\ call = NO_CALL

Next ==
    \/ CliInput
    \/ Intake
    \/ ProfileExtract(PROFILE_OUTPUTS)
    \/ StopIntent(SESSION_STOP_INTENT_OUTPUTS)
    \/ ObserverEvaluate(SESSION_OBSERVER_OUTPUTS)
    \/ RobustnessDetect
    \/ PolicyUpdate
    \/ AnswerCandidate
    \/ Refocus
    \/ Factcheck(FACTCHECK_OUTPUTS)
    \/ Hallucination
    \/ InterviewerGenerate(INTERVIEWER_OUTPUTS)
    \/ Logger
    \/ FinalFeedbackStep(HIRING_MANAGER_OUTPUTS)
    \/ FinalLogger
    \/ CliAfterInvoke

Spec == Init /\ [][Next]_vars

----------------------------------------------------------------------------
(* Specification SpecTurn: one invocation of the engine by an external caller, *)
(* from the state a session holds before its first, second or third turn,     *)
(* with every agent output and every kind of message                          *)

STRONG_ANSWER == ObserverOutput(GOOD_ANSWER, 2, "", <<>>, <<>>, NO_FLAGS)

MaxPriorTurns == 2

InitTurn ==
    /\ state = InitialState
    /\ log = InitialLog
    /\ extractor_calls = 0
    /\ pc = "caller"
    /\ trace = <<>>
    /\ invocations = 0
    /\ call = NO_CALL

\* an earlier turn of the session taken as a whole: an invocation on route normal
\* in which the calls of the stop classifier and the interviewer fell back, and
\* main() line 92 after it
PriorTurn ==
    /\ pc = "caller"
    /\ invocations < MaxPriorTurns
    /\ \E observer_llm \in {LLMCallError, STRONG_ANSWER} :
       \E s1 \in {Merge(state, [user_message |-> MSG_ANSWER])} :
       \E s2 \in {Merge(s1, intake_node(s1))} :
       \E s3 \in {Merge(s2, profile_extract_node(s2, LLMCallError))} :
       \E s4 \in {Merge(s3, stop_intent_node(s3, LLMCallError))} :
       \E s5 \in {Merge(s4, observer_evaluate_node(s4, observer_llm))} :
       \E s6 \in {Merge(s5, robustness_detect_node(s5))} :
       \E s7 \in {Merge(s6, policy_update_node(s6))} :
       \E s8 \in {Merge(s7, interviewer_generate_node(s7, LLMCallError))} :
       \E turn \in {logger_turn(s8)} :
          /\ state' = Merge(Merge(s8, logger_node(s8)), [last_user_message |-> s8.user_message])
          /\ log' = append_turn(IF profile_extract_runs(s2) THEN set_candidate_profile(log, s3.candidate_profile) ELSE log,
                                turn.turn_id, turn.agent_visible_message, turn.user_message, turn.internal_thoughts)
          /\ extractor_calls' = extractor_calls + (IF profile_extract_runs(s2) THEN 1 ELSE 0)
    /\ invocations' = invocations + 1
    /\ UNCHANGED <<pc, trace, call>>

\* graph.invoke(state) with the candidate's message in the state
Invoke ==
    /\ pc = "caller"
    /\ \E user_message \in MESSAGES : state' = Merge(state, [user_message |-> user_message])
    /\ pc' = "intake"
    /\ invocations' = invocations + 1
    /\ UNCHANGED <<trace, log, extractor_calls, call>>

\* graph.invoke hands the final state back
Return ==
    /\ pc = END
    /\ pc' = "returned"
    /\ UNCHANGED <<state, trace, log, invocations, extractor_calls, call>>

\* the steps graph.invoke takes once it has been called
EngineStep ==
    \/ Intake
    \/ ProfileExtract(PROFILE_OUTPUTS)
    \/ StopIntent(STOP_INTENT_OUTPUTS)
    \/ ObserverEvaluate(OBSERVER_OUTPUTS)
    \/ RobustnessDetect
    \/ PolicyUpdate
    \/ AnswerCandidate
    \/ Refocus
    \/ Factcheck(FACTCHECK_OUTPUTS)
    \/ Hallucination
    \/ InterviewerGenerate(INTERVIEWER_OUTPUTS)
    \/ Logger
    \/ FinalFeedbackStep(HIRING_MANAGER_OUTPUTS)
    \/ FinalLogger
    \/ Return

NextTurn == PriorTurn \/ Invoke \/ EngineStep

SpecTurn == InitTurn /\ [][NextTurn]_vars

----------------------------------------------------------------------------
(* Specification SpecGraph: one invocation of the compiled graph on a state and *)
(* a log file that a caller other than main() may hand it: the candidate        *)
(* profile present, missing or null, the turn counter ahead of, level with or   *)
(* behind the last logged turn                                                  *)

MaxLoggedTurns == 2

\* the log file after n turns of a session
LoggedTurns(n) ==
    [InitialLog EXCEPT !.turns = [i \in 1..n |->
        [turn_id |-> i - 1, agent_visible_message |-> GREETING, user_message |-> MSG_ANSWER,
         internal_thoughts |-> <<[tag |-> "Observer"]>>]]]

GRAPH_LOGS == {LoggedTurns(n) : n \in 0..MaxLoggedTurns}

GRAPH_STATES ==
    LET started == Merge(InitialState, [user_message |-> MSG_ANSWER])
    IN  {Merge(started, [turn_id |-> t]) : t \in {-1, 0}}
        \cup {[k \in DOMAIN started \ {"candidate_profile"} |-> started[k]],
              Merge(started, [candidate_profile |-> NoneRec])}

InitGraph ==
    /\ state \in GRAPH_STATES
    /\ log \in GRAPH_LOGS
    /\ pc = "intake"
    /\ trace = <<>>
    /\ invocations = 1
    /\ extractor_calls = 0
    /\ call = NO_CALL

SpecGraph == InitGraph /\ [][EngineStep]_vars

----------------------------------------------------------------------------
(* Specification SpecSessions: two sessions served by one process. The engine *)
(* runs the invocations of one session at a time; between two invocations the *)
(* server may turn to the other session. state, log, invocations and          *)
(* extractor_calls are those of the session being served, call keeps the      *)
(* state of the waiting session and the log files by path.                    *)

MaxSessionInvocations == 2

SESSION_IDS == {"session-1", "session-2"}

\* what each session's candidate writes and what its agents answer
SESSION_MESSAGES ==
    ("session-1" :> {MSG_ANSWER, MSG_STOP_PHRASE}) @@ ("session-2" :> {MSG_QUESTION, MSG_STOP_UPPER})
SESSION_PROFILES ==
    ("session-1" :> {LLMCallError}) @@ ("session-2" :> PROFILE_OUTPUTS \ {LLMCallError})
SESSION_OBSERVERS ==
       ("session-1" :> {LLMCallError, ObserverOutput(GOOD_ANSWER, 0, "", <<>>, <<>>, [NO_FLAGS EXCEPT !.role_reversal = TRUE])})
    @@ ("session-2" :> {ObserverOutput(GOOD_ANSWER, 0, "", <<>>, <<>>, [NO_FLAGS EXCEPT !.hallucination_claim = TRUE]),
                        ObserverOutput(GOOD_ANSWER, 0, "", <<>>, <<>>, [NO_FLAGS EXCEPT !.off_topic = TRUE])})
SESSION_FEEDBACKS ==
    ("session-1" :> {LLMCallError}) @@ ("session-2" :> {FinalFeedback(<<"T:solid_candidate">>)})

\* main() lines 16-71 for a session id
SessionState(session_id) ==
    Merge(InitialState, [session_id |-> session_id, log_path |-> make_log_path(session_id)])

Parked(s, n, e) == [state |-> s, invocations |-> n, extractor_calls |-> e]

InitSessions ==
    /\ state = SessionState("session-1")
    /\ log = InitialLog
    /\ pc = "caller"
    /\ trace = <<>>
    /\ invocations = 0
    /\ extractor_calls = 0
    /\ call = [fn |-> "sessions",
               parked |-> Parked(SessionState("session-2"), 0, 0),
               files |-> (make_log_path("session-1") :> InitialLog) @@ (make_log_path("session-2") :> InitialLog)]

\* the next message of the session being served; a session is over once a stop was resolved
SessionInvoke ==
    /\ pc = "caller"
    /\ invocations < MaxSessionInvocations
    /\ Get(state, "final_feedback", NoneRec) = NoneRec
    /\ \E user_message \in SESSION_MESSAGES[state.session_id] :
          state' = Merge(state, [user_message |-> user_message])
    /\ pc' = "intake"
    /\ trace' = <<>>
    /\ invocations' = invocations + 1
    /\ UNCHANGED <<log, extractor_calls, call>>

SessionReturn ==
    /\ pc = END
    /\ state' = Merge(state, [last_user_message |-> Get(state, "user_message", NoneMsg)])
    /\ pc' = "caller"
    /\ UNCHANGED <<trace, log, invocations, extractor_calls, call>>

\* the server turns to the other session: the served session's file stays where its
\* logger wrote it, the other session's logger will read the file at its own path
SessionSwitch ==
    /\ pc = "caller"
    /\ \E files \in {[call.files EXCEPT ![state.log_path] = log]} :
          /\ state' = call.parked.state
          /\ log' = files[call.parked.state.log_path]
          /\ invocations' = call.parked.invocations
          /\ extractor_calls' = call.parked.extractor_calls
          /\ call' = [call EXCEPT !.files = files,
                                  !.parked = Parked(state, invocations, extractor_calls)]
    /\ trace' = <<>>
    /\ pc' = "caller"

NextSessions ==
    \/ SessionInvoke
    \/ Intake
    \/ ProfileExtract(SESSION_PROFILES[state.session_id])
    \/ StopIntent({LLMCallError})
    \/ ObserverEvaluate(SESSION_OBSERVERS[state.session_id])
    \/ RobustnessDetect
    \/ PolicyUpdate
    \/ AnswerCandidate
    \/ Refocus
    \/ Factcheck({LLMCallError})
    \/ Hallucination
    \/ InterviewerGenerate({LLMCallError})
    \/ Logger
    \/ FinalFeedbackStep(SESSION_FEEDBACKS[state.session_id])
    \/ FinalLogger
    \/ SessionReturn
    \/ SessionSwitch

SpecSessions == InitSessions /\ [][NextSessions]_vars

----------------------------------------------------------------------------
(* Specification SpecPolicy: the pure policy functions applied to every input *)

ANSWER_WORDS == {None, "correct", "partial", "mixed", "wrong", "low", "incorrect", "unknown"}
CONFIDENCE_WORDS == {None, "high", "medium", "low", "0", "1", "2", "true", "false"}
PREV_ACTION_TYPES == {None, "ask", "clarify", "simplify", "hint", "refocus", "answer_candidate", "hallucination"}
QUESTION_TEXTS == {NoneMsg, MSG_QUESTION}
BASE_DIFFICULTIES == 1..5
DELTAS == -2..2

OBSERVER_JSONS ==
    {<<>>}
    \cup {[answer_quality |-> [correctness |-> c, confidence |-> k], robustness |-> f] :
            c \in ANSWER_WORDS, k \in CONFIDENCE_WORDS, f \in FLAGS}

DETECTIONS ==
    {RobustnessDetection(f.off_topic, f.role_reversal, f.hallucination_claim, f.evasive, q, q) :
        f \in FLAGS, q \in QUESTION_TEXTS}

CallChooseRoute ==
    /\ call = NO_CALL
    /\ \E stop_requested \in BOOLEAN, det \in DETECTIONS :
          call' = [fn |-> "choose_route", stop_requested |-> stop_requested, det |-> det,
                   result |-> choose_route(stop_requested, det)]
    /\ UNCHANGED <<state, pc, trace, log, invocations, extractor_calls>>

CallDecideActionType ==
    /\ call = NO_CALL
    /\ \E observer_json \in OBSERVER_JSONS, prev_action_type \in PREV_ACTION_TYPES :
          call' = [fn |-> "decide_action_type", observer_json |-> observer_json,
                   prev_action_type |-> prev_action_type,
                   result |-> decide_action_type(observer_json, prev_action_type)]
    /\ UNCHANGED <<state, pc, trace, log, invocations, extractor_calls>>

CallApplyDifficulty ==
    /\ call = NO_CALL
    /\ \E difficulty \in BASE_DIFFICULTIES, delta \in DELTAS :
          call' = [fn |-> "apply_difficulty", difficulty |-> difficulty, delta |-> delta,
                   result |-> apply_difficulty(difficulty, delta)]
    /\ UNCHANGED <<state, pc, trace, log, invocations, extractor_calls>>

\* skill updates as SkillUpdate.model_validate admits them: three strings each
SKILL_UPDATE_ITEMS ==
    {[topic |-> t, status |-> st, evidence |-> e] :
        t \in {"python_types", "sql_joins"}, st \in {"confirmed", "gap", ""}, e \in {"", "T:e1", "T:e2"}}
    \cup {[topic |-> "", status |-> "gap", evidence |-> "T:e1"]}

MaxUpdates == 2

SKILL_UPDATE_LISTS == UNION {[1..n -> SKILL_UPDATE_ITEMS] : n \in 0..MaxUpdates}

SKILL_MATRICES ==
    {<<>>,
     ("python_types" :> [status |-> "confirmed", evidence |-> <<"T:e0">>]),
     ("python_types" :> [status |-> "gap", evidence |-> <<>>])}

CallApplySkillUpdates ==
    /\ call = NO_CALL
    /\ \E skill_matrix \in SKILL_MATRICES, updates \in SKILL_UPDATE_LISTS :
          call' = [fn |-> "apply_skill_updates", skill_matrix |-> skill_matrix, updates |-> updates,
                   result |-> apply_skill_updates(skill_matrix, updates)]
    /\ UNCHANGED <<state, pc, trace, log, invocations, extractor_calls>>

\* states handed to policy_update_node: asked lists that are nearly empty or nearly
\* the whole bank, every difficulty, the answer qualities behind each follow-up
\* type, a topic the observer suggests or none, a topic history that repeats or is
\* empty, and a ring of prompt hashes that is empty or holds one hash twice
BANK_IDS == {QUESTION_BANK[i].question_id : i \in DOMAIN QUESTION_BANK}

ASKED_LISTS ==
    {[i \in 1..Len(SelectSeq(QUESTION_BANK, LAMBDA q : q.question_id \in ids)) |->
         SelectSeq(QUESTION_BANK, LAMBDA q : q.question_id \in ids)[i].question_id] :
        ids \in {a \in SUBSET BANK_IDS : Cardinality(a) <= 1 \/ Cardinality(a) >= Cardinality(BANK_IDS) - 1}}

HASH_RINGS ==
    {<<>>} \cup {<<_hash_prompt(QUESTION_BANK[i].prompt), _hash_prompt(QUESTION_BANK[i].prompt)>> : i \in DOMAIN QUESTION_BANK}

TOPIC_HISTORIES == {<<>>, <<"git_basics">>, <<"git_basics", "git_basics">>, <<"python_oop", "python_oop">>}

POLICY_STATES ==
    {Merge(InitialState,
           [asked_questions |-> asked,
            difficulty |-> difficulty,
            action_type |-> prev_action_type,
            observer_json |-> ObserverOutput(quality, 0, soft_topic, <<>>, <<>>, NO_FLAGS),
            topic_state |-> [current_topic |-> IF last_topics = <<>> THEN None ELSE last_topics[Len(last_topics)],
                             last_topics |-> last_topics, coverage |-> <<>>,
                             last_prompts_hashes |-> hashes]]) :
        asked \in ASKED_LISTS, difficulty \in BASE_DIFFICULTIES, prev_action_type \in {None, "simplify"},
        quality \in QUALITIES, soft_topic \in {"", "Python_OOP"}, last_topics \in TOPIC_HISTORIES,
        hashes \in HASH_RINGS}

CallPolicyUpdate ==
    /\ call = NO_CALL
    /\ \E s \in POLICY_STATES :
          call' = [fn |-> "policy_update_node", state |-> s, result |-> policy_update_node(s)]
    /\ UNCHANGED <<state, pc, trace, log, invocations, extractor_calls>>

\* detect_loop called again and again on the topic state it keeps, from the topic
\* state of a new session, with either of two prompts each time
MaxLoopCalls == 6

LOOP_PROMPTS == {QUESTION_BANK[1].prompt, QUESTION_BANK[6].prompt}

CallDetectLoop ==
    /\ call = NO_CALL \/ (call.fn = "detect_loop" /\ call.calls < MaxLoopCalls)
    /\ \E new_prompt \in LOOP_PROMPTS :
       \E topic_state \in {IF call = NO_CALL THEN state.topic_state ELSE call.topic_state_after} :
          call' = [fn |-> "detect_loop", topic_state |-> topic_state, new_prompt |-> new_prompt,
                   result |-> detect_loop(topic_state, new_prompt),
                   topic_state_after |-> Merge(topic_state, [last_prompts_hashes |-> detect_loop_hashes(topic_state, new_prompt)]),
                   calls |-> IF call = NO_CALL THEN 1 ELSE call.calls + 1,
                   prompts |-> Append(IF call = NO_CALL THEN <<>> ELSE call.prompts, new_prompt)]
    /\ UNCHANGED <<state, pc, trace, log, invocations, extractor_calls>>

\* skill matrices over three topics of the bank: each absent, or with a status the mapping
\* knows, knows under another spelling, or does not know; topic histories without and with a
\* repeated last topic
RANKED_STATUSES == {"gap", "uncertain", "unknown", "confirmed", "mastered", " GAP ", "Confirmed", None}
RANKED_MATRICES ==
    UNION {[topics -> [status : RANKED_STATUSES, evidence : {<<>>}]] :
              topics \in SUBSET {"git_basics", "python_oop", "sql_joins"}}
RANKED_HISTORIES == {<<>>, <<"git_basics">>, <<"git_basics", "sql_joins">>, <<"git_basics", "git_basics">>}

CallSelectNextTopic ==
    /\ call = NO_CALL
    /\ \E skill_matrix \in RANKED_MATRICES, last_topics \in RANKED_HISTORIES :
          call' = [fn |-> "select_next_topic", skill_matrix |-> skill_matrix, last_topics |-> last_topics,
                   result |-> select_next_topic(skill_matrix, [last_topics |-> last_topics])]
    /\ UNCHANGED <<state, pc, trace, log, invocations, extractor_calls>>

InitPolicy ==
    /\ state = InitialState
    /\ pc = "caller"
    /\ trace = <<>>
    /\ log = InitialLog
    /\ invocations = 0
    /\ extractor_calls = 0
    /\ call = NO_CALL

NextPolicy ==
    \/ CallChooseRoute
    \/ CallDecideActionType
    \/ CallApplyDifficulty
    \/ CallApplySkillUpdates
    \/ CallPolicyUpdate
    \/ CallDetectLoop
    \/ CallSelectNextTopic

SpecPolicy == InitPolicy /\ [][NextPolicy]_vars

----------------------------------------------------------------------------
(* app/llm/json_parser.py *)

\* json.loads on the texts of the model: "{a}" is an object with the fields the
\* schema asks for, "{b}" an object that breaks the schema, "{}" the empty object,
\* "7" a number; json.loads accepts white space around the value and between
\* its tokens, each character of the model other than the space being a token
json_loads(text) ==
    LET t == SelectSeq(text, LAMBDA c : ~IsSpace(c))
    IN  IF t = <<"{", "a", "}">> THEN [ok |-> TRUE, data |-> "object:a"]
        ELSE IF t = <<"{", "b", "}">> THEN [ok |-> TRUE, data |-> "object:b"]
        ELSE IF t = <<"{", "}">> THEN [ok |-> TRUE, data |-> "object:"]
        ELSE IF t = <<"7">> THEN [ok |-> TRUE, data |-> "number"]
        ELSE [ok |-> FALSE, data |-> "JSONDecodeError"]

\* str.find and str.rfind of one character, 0 for -1
Find(text, c) ==
    IF \E i \in DOMAIN text : text[i] = c
    THEN CHOOSE i \in DOMAIN text : text[i] = c /\ \A j \in 1..(i - 1) : text[j] # c
    ELSE 0

RFind(text, c) ==
    IF \E i \in DOMAIN text : text[i] = c
    THEN CHOOSE i \in DOMAIN text : text[i] = c /\ \A j \in (i + 1)..Len(text) : text[j] # c
    ELSE 0

\* _extract_json_substring lines 52-70: start_idx 0 stands for None
\* a plausible slip: the scan gives up at the first balanced span that does not parse
RECURSIVE BalancedScan_gives_up(_, _, _, _)
BalancedScan_gives_up(text, idx, depth, start_idx) ==
    IF idx > Len(text) THEN [ok |-> FALSE, text |-> <<>>]
    ELSE IF text[idx] = "{"
    THEN BalancedScan_gives_up(text, idx + 1, depth + 1, IF depth = 0 THEN idx ELSE start_idx)
    ELSE IF text[idx] = "}" /\ depth > 0
    THEN IF depth = 1 /\ start_idx # 0
         THEN IF json_loads(SubSeq(text, start_idx, idx)).ok
              THEN [ok |-> TRUE, text |-> SubSeq(text, start_idx, idx)]
              ELSE [ok |-> FALSE, text |-> <<>>]
         ELSE BalancedScan_gives_up(text, idx + 1, depth - 1, start_idx)
    ELSE BalancedScan_gives_up(text, idx + 1, depth, start_idx)

RECURSIVE BalancedScan(_, _, _, _)
BalancedScan(text, idx, depth, start_idx) ==
    IF idx > Len(text) THEN [ok |-> FALSE, text |-> <<>>]
    ELSE IF text[idx] = "{"
    THEN BalancedScan(text, idx + 1, depth + 1, IF depth = 0 THEN idx ELSE start_idx)
    ELSE IF text[idx] = "}" /\ depth > 0
    THEN IF depth = 1 /\ start_idx # 0
         THEN IF json_loads(SubSeq(text, start_idx, idx)).ok
              THEN [ok |-> TRUE, text |-> SubSeq(text, start_idx, idx)]
              ELSE BalancedScan(text, idx + 1, 0, 0)
         ELSE BalancedScan(text, idx + 1, depth - 1, start_idx)
    ELSE BalancedScan(text, idx + 1, depth, start_idx)

\* ok = FALSE stands for the ValueError of line 70
_extract_json_substring(raw) ==
    LET text == Strip(raw)
        start == Find(text, "{")
        end == RFind(text, "}")
    IN  IF json_loads(text).ok THEN [ok |-> TRUE, text |-> text]
        ELSE IF start # 0 /\ end # 0 /\ end > start /\ json_loads(SubSeq(text, start, end)).ok
        THEN [ok |-> TRUE, text |-> SubSeq(text, start, end)]
        ELSE BalancedScan(text, 1, 0, 0)

\* schema.model_validate of the parsed data
schema_model_validate(data) == data = "object:a"

\* the validated value, or JsonSchemaValidationError with the exception it wraps
parse_json_with_schema(text) ==
    LET json_str == _extract_json_substring(text)
        data == json_loads(json_str.text).data
    IN  IF ~json_str.ok THEN [ok |-> FALSE, value |-> "", validation_error |-> "ValueError"]
        ELSE IF ~schema_model_validate(data) THEN [ok |-> FALSE, value |-> "", validation_error |-> "ValidationError"]
        ELSE [ok |-> TRUE, value |-> data, validation_error |-> ""]

\* what llm.invoke does: it raises, or returns a response whose content is None or a text
LLMRaises(exc) == [kind |-> "raise", exc |-> exc, content |-> <<>>]
LLMReturns(content) == [kind |-> "text", exc |-> "", content |-> content]
LLM_NO_CONTENT == [kind |-> "none", exc |-> "", content |-> <<>>]

\* repair_to_valid_json lines 146-152 on the response to the repair request
repair_to_valid_json(response) ==
    IF response.kind = "raise" THEN [ok |-> FALSE, exc |-> response.exc, text |-> <<>>]
    ELSE IF response.kind = "none" THEN [ok |-> FALSE, exc |-> "ValueError", text |-> <<>>]
    ELSE [ok |-> TRUE, exc |-> "", text |-> Strip(response.content)]

\* the outcome of call_llm_for_json: a return or a raise, with the invocations made
CallReturn(value, repairs) == [outcome |-> "return", value |-> value, exc |-> "", primary |-> 1, repairs |-> repairs]
CallRaise(exc, primary, repairs) == [outcome |-> "raise", value |-> "", exc |-> exc, primary |-> primary, repairs |-> repairs]

\* llm: the responses of the capability in the order it is invoked. The loop body
\* runs once: it returns, raises, or leaves by break (lines 177-178 and 189)
call_llm_for_json(llm, max_attempts) ==
    LET response == llm[1]
        parsed == parse_json_with_schema(response.content)
        repaired == repair_to_valid_json(llm[2])
    IN  IF max_attempts <= 0 THEN CallRaise("AssertionError", 0, 0)
        ELSE IF response.kind = "raise" THEN CallRaise(response.exc, 1, 0)
        ELSE IF response.kind = "none" THEN CallRaise("JsonSchemaValidationError", 1, 0)
        ELSE IF parsed.ok THEN CallReturn(parsed.value, 0)
        ELSE IF max_attempts = 1 THEN CallRaise("JsonSchemaValidationError", 1, 0)
        ELSE IF ~repaired.ok THEN CallRaise(repaired.exc, 1, 1)
        ELSE IF parse_json_with_schema(repaired.text).ok
        THEN CallReturn(parse_json_with_schema(repaired.text).value, 1)
        ELSE CallRaise("JsonSchemaValidationError", 1, 1)

----------------------------------------------------------------------------
(* app/llm/retry.py: safe_call_for_json as a process kept in `call` *)

\* the max_attempts that line 33 hands to call_llm_for_json
INNER_MAX_ATTEMPTS == 1

\* a plausible slip: only the parser's own error is caught
safe_call_catches_parser_error_only(exc) == exc = "JsonSchemaValidationError"

\* lines 35-39: except JsonSchemaValidationError, except Exception
safe_call_catches(exc) ==
    exc \in {"JsonSchemaValidationError", "ValueError", "TimeoutError", "ConnectionError", "AssertionError"}

\* a plausible slip: the loop runs once more than the budget
attempts_remaining_one_more(c) == c.attempt <= c.max_attempts

\* line 28: for attempt in range(max_attempts)
attempts_remaining(c) == c.attempt < c.max_attempts

\* lines 25-26: the call before its first attempt
safe_call_start(max_attempts) ==
    [fn |-> "safe_call_for_json", max_attempts |-> max_attempts, attempt |-> 0, pc |-> "loop",
     primary |-> 0, repairs |-> 0, sleeps |-> <<>>, responses |-> <<>>,
     last_err |-> None, result |-> "", error |-> ""]

\* lines 29-41: one pass of the loop; sleeps are counted in units of 0.5 s
safe_call_attempt(c, llm) ==
    LET r == call_llm_for_json(llm, INNER_MAX_ATTEMPTS)
        made == [c EXCEPT !.primary = @ + r.primary, !.repairs = @ + r.repairs,
                          !.responses = @ \o SubSeq(llm, 1, r.primary + r.repairs)]
    IN  IF r.outcome = "return" THEN [made EXCEPT !.pc = "returned", !.result = r.value]
        ELSE IF ~safe_call_catches(r.exc) THEN [made EXCEPT !.pc = "raised", !.error = r.exc]
        ELSE [made EXCEPT !.last_err = r.exc,
                          !.attempt = @ + 1,
                          !.sleeps = IF c.attempt < c.max_attempts - 1 THEN Append(@, c.attempt + 1) ELSE @]

\* lines 43-48
safe_call_raise(c) == [c EXCEPT !.pc = "raised", !.error = LLMCallError.error]

----------------------------------------------------------------------------
(* Specification SpecCall: one structured call, with every attempt budget up to *)
(* MaxAttempts and every response of the capability to each invocation          *)

MaxAttempts == 2

VALID_JSON == <<"{", "a", "}">>
NON_JSON == <<"x", "x">>

LLM_TEXTS ==
    {VALID_JSON, NON_JSON,
     <<"x", "{", "a", "}">>,
     <<"{", "x", "}", "{", "a", "}">>,
     <<"{", "b", "}">>,
     <<"7">>}

LLM_RESPONSES ==
    {LLMRaises("TimeoutError"), LLMRaises("ConnectionError"), LLM_NO_CONTENT}
    \cup {LLMReturns(t) : t \in LLM_TEXTS}

CallSafeCallForJson ==
    /\ call = NO_CALL
    /\ \E max_attempts \in 1..MaxAttempts : call' = safe_call_start(max_attempts)
    /\ UNCHANGED <<state, pc, trace, log, invocations, extractor_calls>>

SafeCallAttempt ==
    /\ call.fn = "safe_call_for_json"
    /\ call.pc = "loop"
    /\ attempts_remaining(call)
    /\ \E primary_response, repair_response \in LLM_RESPONSES :
          call' = safe_call_attempt(call, <<primary_response, repair_response>>)
    /\ UNCHANGED <<state, pc, trace, log, invocations, extractor_calls>>

SafeCallRaise ==
    /\ call.fn = "safe_call_for_json"
    /\ call.pc = "loop"
    /\ ~attempts_remaining(call)
    /\ call' = safe_call_raise(call)
    /\ UNCHANGED <<state, pc, trace, log, invocations, extractor_calls>>

\* _extract_json_substring on every text of at most MaxTextLen characters, and on
\* the replies above
MaxTextLen == 4

JSON_ALPHABET == {"{", "}", "a", "x", "7", " "}

JSON_TEXTS == LLM_TEXTS \cup UNION {[1..n -> JSON_ALPHABET] : n \in 0..MaxTextLen}

CallExtractJson ==
    /\ call = NO_CALL
    /\ \E text \in JSON_TEXTS :
          call' = [fn |-> "_extract_json_substring", text |-> text, result |-> _extract_json_substring(text)]
    /\ UNCHANGED <<state, pc, trace, log, invocations, extractor_calls>>

NextCall == CallSafeCallForJson \/ SafeCallAttempt \/ SafeCallRaise \/ CallExtractJson

SpecCall == InitPolicy /\ [][NextCall]_vars

----------------------------------------------------------------------------
(* Properties *)

\* the invocation has handed its state back to the caller
Returned == pc \in {END, "returned"}

\* phrase matching as stop_intent's contract states it
PhraseMatch(message) == \E phrase \in STOP_PHRASES : Contains(Lower(message), phrase)

STOP_PATH == <<"intake", "profile_extract", "stop_intent", "final_feedback", "final_logger">>

TURN_PREFIX == <<"intake", "profile_extract", "stop_intent", "observer_evaluate", "robustness_detect", "policy_update">>

TURN_SUFFIX == <<"interviewer_generate", "logger">>

\* the special-action steps of a route
RouteBranch(route) ==
    CASE route = "answer_candidate" -> <<"answer_candidate">>
      [] route = "refocus" -> <<"refocus">>
      [] route = "hallucination" -> <<"factcheck", "hallucination">>
      [] OTHER -> <<>>

\* C1 (as stated): an invocation in which stop_intent resolved stop_requested = true
\* ran exactly intake, profile_extract, stop_intent, final_feedback, final_logger,
\* and the state it returns carries a final feedback record whose Summary is not empty.
C1_StopYieldsNonEmptySummary ==
    (Returned /\ Executed("stop_intent") /\ state.stop_requested) =>
        /\ trace = STOP_PATH
        /\ state.final_feedback # NoneRec
        /\ state.final_feedback.Summary # <<>>

\* the steps of the compiled graph
NODES ==
    {"intake", "profile_extract", "stop_intent", "final_feedback", "final_logger",
     "observer_evaluate", "robustness_detect", "policy_update", "answer_candidate",
     "refocus", "factcheck", "hallucination", "interviewer_generate", "logger"}

\* a step taken while the engine runs records the step and moves on to another one
StepAdvances ==
    pc \in NODES => (trace' = Append(trace, pc) /\ pc' \in ((NODES \cup {END, "raised"}) \ {pc}))

\* C2: an invocation starts at intake, executes no step twice and never comes
\* back to a step it has executed; each step of the engine adds one step to the
\* executed ones, so that the invocation is over after at most as many steps as
\* the graph has, at the terminal sink unless a step raised.
C2_InvocationTerminates ==
    /\ [](/\ (trace # <<>> => trace[1] = "intake")
          /\ \A i, j \in DOMAIN trace : i # j => trace[i] # trace[j]
          /\ pc \in NODES => ~Executed(pc)
          /\ Len(trace) <= Cardinality(NODES)
          /\ pc \in NODES \cup {"caller", END, "returned", "raised"}
          /\ pc \in {END, "returned"} => trace[Len(trace)] \in {"final_logger", "logger"})
    /\ [][StepAdvances]_vars

C2_Witness == pc = "returned" /\ Len(trace) = 10 /\ trace[1] = "intake"

\* C3: a returned non-stop invocation ran intake, profile_extract, stop_intent,
\* observer_evaluate, robustness_detect, policy_update, then the steps of its route
\* (answer_candidate, or refocus, or factcheck immediately followed by
\* hallucination, or none on route normal), then interviewer_generate, then logger.
C3_TurnStepOrder ==
    (Returned /\ ~state.stop_requested) =>
        /\ trace = TURN_PREFIX \o RouteBranch(state.route) \o TURN_SUFFIX
        /\ Executed("answer_candidate") <=> state.route = "answer_candidate"
        /\ Executed("refocus") <=> state.route = "refocus"
        /\ Executed("factcheck") <=> state.route = "hallucination"
        /\ Executed("hallucination") <=> state.route = "hallucination"

C3_Witness ==
    /\ Returned
    /\ ~state.stop_requested
    /\ state.route = "hallucination"
    /\ trace = TURN_PREFIX \o <<"factcheck", "hallucination">> \o TURN_SUFFIX

\* C4 (as stated): at the end of a non-stop turn whose evaluator output has
\* off_topic = true, the route is refocus and the action type is refocus, whatever
\* the other robustness flags are.
C4_OffTopicAlwaysRefocus ==
    (Returned /\ ~state.stop_requested /\ state.observer_json.robustness.off_topic) =>
        /\ state.route = "refocus"
        /\ state.action_type = "refocus"

\* C4 (amended): at the end of a non-stop turn whose evaluator output has
\* off_topic = true and neither role_reversal nor hallucination_claim, the route
\* is refocus and the action type is refocus, whether or not evasive is set.
C4_OffTopicRefocusUnlessHigherFlag ==
    (/\ Returned
     /\ ~state.stop_requested
     /\ state.observer_json.robustness.off_topic
     /\ ~state.observer_json.robustness.role_reversal
     /\ ~state.observer_json.robustness.hallucination_claim) =>
        /\ state.route = "refocus"
        /\ state.action_type = "refocus"

C4_Witness ==
    /\ Returned
    /\ ~state.stop_requested
    /\ state.observer_json.robustness = [off_topic |-> TRUE, role_reversal |-> FALSE,
                                         hallucination_claim |-> FALSE, evasive |-> TRUE]
    /\ Executed("refocus")
    /\ state.route = "refocus"

\* C5: choose_route returns the first match of the chain stop requested -> final,
\* role_reversal -> answer_candidate, hallucination_claim -> hallucination,
\* off_topic -> refocus, otherwise normal; flipping evasive never changes the route.
C5_RoutePriorityChain ==
    call.fn = "choose_route" =>
        LET stop == call.stop_requested
            det == call.det
        IN  /\ stop => call.result = "final"
            /\ (~stop /\ det.role_reversal) => call.result = "answer_candidate"
            /\ (~stop /\ ~det.role_reversal /\ det.hallucination_claim) => call.result = "hallucination"
            /\ (~stop /\ ~det.role_reversal /\ ~det.hallucination_claim /\ det.off_topic) =>
                    call.result = "refocus"
            /\ (~stop /\ ~det.role_reversal /\ ~det.hallucination_claim /\ ~det.off_topic) =>
                    call.result = "normal"
            /\ choose_route(stop, [det EXCEPT !.evasive = ~@]) = call.result

C5_Witness ==
    /\ call.fn = "choose_route"
    /\ ~call.stop_requested
    /\ call.det.off_topic /\ call.det.role_reversal /\ call.det.hallucination_claim
    /\ call.result = "answer_candidate"

\* C6: decide_action_type returns the result of the first matching condition of
\* the chain off_topic -> refocus, role_reversal -> answer_candidate, low or
\* incorrect correctness or low confidence -> simplify, partial or mixed
\* correctness -> clarify, previous action simplify -> hint, otherwise ask.
C6_ActionTypePriorityChain ==
    call.fn = "decide_action_type" =>
        LET flags == Get(call.observer_json, "robustness", NO_FLAGS)
            quality == Get(call.observer_json, "answer_quality", <<>>)
            low == \/ Get(quality, "correctness", None) \in {"wrong", "low", "incorrect"}
                   \/ Get(quality, "confidence", None) \in {"low", "0", "1", "true", "false"}
            partial == Get(quality, "correctness", None) \in {"partial", "mixed"}
            simplified == call.prev_action_type = "simplify"
        IN  /\ flags.off_topic => call.result = "refocus"
            /\ (~flags.off_topic /\ flags.role_reversal) => call.result = "answer_candidate"
            /\ (~flags.off_topic /\ ~flags.role_reversal /\ low) => call.result = "simplify"
            /\ (~flags.off_topic /\ ~flags.role_reversal /\ ~low /\ partial) => call.result = "clarify"
            /\ (~flags.off_topic /\ ~flags.role_reversal /\ ~low /\ ~partial /\ simplified) =>
                    call.result = "hint"
            /\ (~flags.off_topic /\ ~flags.role_reversal /\ ~low /\ ~partial /\ ~simplified) =>
                    call.result = "ask"

C6_Witness ==
    /\ call.fn = "decide_action_type"
    /\ call.observer_json # <<>>
    /\ call.observer_json.robustness.off_topic
    /\ call.observer_json.answer_quality.correctness = "wrong"
    /\ call.prev_action_type = "simplify"
    /\ call.result = "refocus"

\* C7: once policy_update has run in a non-stop turn, and so at the end of the
\* turn, the action type agrees with the route: it equals the route when the route
\* is answer_candidate, hallucination or refocus, and it is one of ask, clarify,
\* simplify, hint when the route is normal.
C7_ActionTypeFollowsRoute ==
    Executed("policy_update") =>
        /\ state.route \in {"answer_candidate", "hallucination", "refocus"} => state.action_type = state.route
        /\ state.route = "normal" => state.action_type \in {"ask", "clarify", "simplify", "hint"}
        /\ state.route \in {"answer_candidate", "hallucination", "refocus", "normal"}

C7_Witness ==
    /\ Returned
    /\ Executed("policy_update")
    /\ state.route = "hallucination"
    /\ state.action_type = "hallucination"
    /\ state.observer_json.answer_quality.correctness = "wrong"

\* C8: after stop_intent, stop_requested is true exactly when the classifier's
\* verdict has stop = true with confidence >= 70, or the lower-cased message
\* contains a stop phrase; confidence 69 without a phrase does not stop, and a
\* phrase stops whatever the verdict is.
C8_StopIntentCombination ==
    Executed("stop_intent") =>
        LET verdict == state.stop_intent
            phrase == PhraseMatch(state.user_message)
        IN  /\ state.stop_requested <=> ((verdict.stop /\ verdict.confidence >= 70) \/ phrase)
            /\ (verdict.stop /\ verdict.confidence = 69 /\ ~phrase) => ~state.stop_requested
            /\ phrase => state.stop_requested

C8_Witness ==
    /\ Executed("stop_intent")
    /\ state.stop_intent.stop
    /\ state.stop_intent.confidence = 70
    /\ ~PhraseMatch(state.user_message)
    /\ state.stop_requested

\* C9: over the invocations of one session the profile extractor is called at
\* most once: it has been called once profile_extract of the first invocation has
\* run, and never again, also when the turn counter is still at its sentinel.
C9_ProfileExtractedOnce ==
    /\ extractor_calls <= 1
    /\ extractor_calls = 1 <=> state.profile_extracted
    /\ (invocations >= 2 \/ (invocations = 1 /\ Executed("profile_extract"))) => extractor_calls = 1

C9_Witness ==
    /\ invocations >= 2
    /\ Executed("stop_intent")
    /\ state.turn_id = INITIAL_TURN_ID
    /\ state.user_message # <<>>
    /\ extractor_calls = 1

\* C10: for base difficulty b in 1..5 and delta d in -2..2, apply_difficulty(b, d)
\* is b + d clamped to 1..5; apply_difficulty(1, -2) = 1 and apply_difficulty(5, 2) = 5.
C10_DifficultyClamp ==
    /\ call.fn = "apply_difficulty" =>
          LET sum == call.difficulty + call.delta
          IN  call.result = IF sum < 1 THEN 1 ELSE IF sum > 5 THEN 5 ELSE sum
    /\ apply_difficulty(1, -2) = 1
    /\ apply_difficulty(5, 2) = 5

C10_Witness ==
    /\ call.fn = "apply_difficulty"
    /\ call.difficulty = 1
    /\ call.delta = -2
    /\ call.result = 1

\* C11: in every state of a session, whatever turns (stop or not) came before and
\* whatever deltas in -2..2 the observer or its fallback produced, the difficulty
\* of the state is an integer from 1 to 5.
C11_DifficultyInRange ==
    /\ state.difficulty \in Int
    /\ state.difficulty >= 1
    /\ state.difficulty <= 5

\* a third turn that starts at difficulty 5 and whose observer asks for +2 more
C11_Witness ==
    /\ invocations = 3
    /\ Executed("policy_update")
    /\ state.observer_json.difficulty_delta = 2
    /\ state.difficulty = 5
    /\ log.turns # <<>>

\* the non-empty evidence texts the updates carry for a topic, in the order of the updates
EvidenceFor(updates, topic) ==
    LET mine == SelectSeq(updates, LAMBDA u : u.topic = topic /\ u.evidence # "")
    IN  [i \in 1..Len(mine) |-> mine[i].evidence]

\* C12: a topic whose status is confirmed keeps the status confirmed through any
\* list of skill updates (so through every update that names another status or
\* none), and its evidence list afterwards is the old list followed by every
\* non-empty evidence text of the updates for that topic, in their order.
C12_ConfirmedIsSticky ==
    call.fn = "apply_skill_updates" =>
        \A t \in DOMAIN call.skill_matrix :
            call.skill_matrix[t].status = "confirmed" =>
                /\ call.result[t].status = "confirmed"
                /\ call.result[t].evidence = call.skill_matrix[t].evidence \o EvidenceFor(call.updates, t)

C12_Witness ==
    /\ call.fn = "apply_skill_updates"
    /\ call.skill_matrix = ("python_types" :> [status |-> "confirmed", evidence |-> <<"T:e0">>])
    /\ call.updates = << [topic |-> "python_types", status |-> "gap", evidence |-> "T:e1"],
                         [topic |-> "python_types", status |-> "", evidence |-> "T:e2"] >>
    /\ call.result["python_types"] = [status |-> "confirmed", evidence |-> <<"T:e0", "T:e1", "T:e2">>]

\* the ids of state.asked_questions
AskedIds == {state.asked_questions[i] : i \in DOMAIN state.asked_questions}

\* policy_update has planned for this turn and interviewer_generate has not yet recorded it
PlannedNotYetAsked == Executed("policy_update") /\ ~Executed("interviewer_generate")

C14_PlansWhileBankHasUnasked ==
    call.fn = "policy_update_node" =>
        ((BANK_IDS \ policy_asked_questions(call.state)) # {} => call.result.planned_question # NoneRec)

\* C16: when policy_update declares a loop, the topic that the loop-breaking
\* reselection makes current differs from the topic selected for the turn before
\* the loop was looked for (the bank always offers other topics).
C16_LoopBreakChangesTopic ==
    (call.fn = "policy_update_node" /\ policy_loop_declared(call.state)) =>
        call.result.topic_state.current_topic # policy_selected_topic(call.state)

\* C15: detect_loop answers yes exactly when the hash of the new prompt equals each
\* of the two hashes recorded just before it, that is when the same prompt has
\* been given three times in a row: the first and the second time in a row answer
\* no, the third answers yes; the ring keeps the last five hashes.
C15_LoopOnThirdRepeat ==
    call.fn = "detect_loop" =>
        LET before == Get(call.topic_state, "last_prompts_hashes", <<>>)
            new_hash == _hash_prompt(call.new_prompt)
            k == Len(call.prompts)
        IN  /\ call.result <=> (/\ Len(before) >= 2
                                /\ before[Len(before)] = new_hash
                                /\ before[Len(before) - 1] = new_hash)
            /\ call.result <=> (/\ k >= 3
                                /\ call.prompts[k - 1] = call.prompts[k]
                                /\ call.prompts[k - 2] = call.prompts[k])
            /\ Len(call.topic_state_after.last_prompts_hashes) = IF k <= 5 THEN k ELSE 5

C15_Witness ==
    /\ call.fn = "detect_loop"
    /\ call.calls = 3
    /\ call.prompts = <<QUESTION_BANK[1].prompt, QUESTION_BANK[1].prompt, QUESTION_BANK[1].prompt>>
    /\ call.result

\* the response is a text that extracts and validates
ResponseValidates(r) == r.kind = "text" /\ parse_json_with_schema(r.content).ok

\* C17: safe_call_for_json ends only by returning a validated value or by raising
\* the typed LLMCallError: whatever made the attempts fail (a timeout, a transport
\* error, empty content, text that does not parse, a schema violation), no other
\* exception leaves it, and LLMCallError is raised only when max_attempts attempts
\* have failed.
C17_OnlyTypedFailureAfterBudget ==
    (call.fn = "safe_call_for_json" /\ call.pc = "raised") =>
        /\ call.error = "LLMCallError"
        /\ call.attempt = call.max_attempts
        /\ Len(call.responses) = call.max_attempts
        /\ \A i \in DOMAIN call.responses : ~ResponseValidates(call.responses[i])
        /\ call.last_err \in {"TimeoutError", "ConnectionError", "JsonSchemaValidationError"}

\* a budget of two used up by a timeout and then a text that is no JSON
C17_Witness ==
    /\ call.fn = "safe_call_for_json"
    /\ call.pc = "raised"
    /\ call.error = "LLMCallError"
    /\ call.responses = <<LLMRaises("TimeoutError"), LLMReturns(NON_JSON)>>

\* C18: with a budget n >= 1, safe_call_for_json invokes the capability afresh one
\* attempt at a time, never repairs, and returns at the first response that
\* extracts and validates (a valid first response costs one invocation and no
\* backoff); it sleeps 0.5 s x k after the k-th failed attempt except the last, and
\* raises after exactly n primary invocations when none validates.
C18_AtMostBudgetInvocations ==
    call.fn = "safe_call_for_json" =>
        /\ call.primary <= call.max_attempts
        /\ call.primary = Len(call.responses)
        /\ call.repairs = 0
        /\ call.pc = "returned" =>
              /\ ResponseValidates(call.responses[call.primary])
              /\ \A i \in 1..(call.primary - 1) : ~ResponseValidates(call.responses[i])
              /\ call.sleeps = [k \in 1..(call.primary - 1) |-> k]
        /\ call.pc = "raised" =>
              /\ call.primary = call.max_attempts
              /\ call.sleeps = [k \in 1..(call.max_attempts - 1) |-> k]
        /\ (call.responses # <<>> /\ call.responses[1] = LLMReturns(VALID_JSON)) =>
              (call.pc = "returned" /\ call.primary = 1 /\ call.sleeps = <<>>)

\* the second and last attempt succeeds on a text with a stray prefix
C18_Witness ==
    /\ call.fn = "safe_call_for_json"
    /\ call.max_attempts = 2
    /\ call.pc = "returned"
    /\ call.responses = <<LLM_NO_CONTENT, LLMReturns(<<"x", "{", "a", "}">>)>>
    /\ call.primary = 2
    /\ call.sleeps = <<1>>

\* C19: a structured call with a budget of two attempts whose first response is
\* text with no JSON in it issues exactly one repair request before it returns or
\* raises.
C19_OneRepairAfterNonJson ==
    (/\ call.fn = "safe_call_for_json"
     /\ call.max_attempts = 2
     /\ call.pc \in {"returned", "raised"}
     /\ call.responses[1] = LLMReturns(NON_JSON)) => call.repairs = 1

\* the observer's record in a state is the fixed fallback of the role
IsObserverFallback(s) == s.observer_json.summary = "Fallback observer: no LLM available."

\* the observer has run in this invocation and its structured call was exhausted
ObserverFellBack == Executed("observer_evaluate") /\ IsObserverFallback(state)

\* what each step of a turn does once the observer has fallen back
FallbackTurnStep ==
    /\ (pc = "observer_evaluate" /\ IsObserverFallback(state')) =>
          /\ pc' = "robustness_detect"
          /\ state'.skill_matrix = state.skill_matrix
          /\ state'.difficulty = state.difficulty
    /\ (ObserverFellBack /\ pc \in NODES) =>
          /\ pc' # "raised"
          /\ state'.skill_matrix = state.skill_matrix
          /\ state'.difficulty =
                IF pc # "policy_update" THEN state.difficulty
                ELSE IF state.difficulty - 1 < 1 THEN 1
                ELSE IF state.difficulty - 1 > 5 THEN 5
                ELSE state.difficulty - 1

\* C20: when the observer's structured call is exhausted, no later step of the
\* turn raises and the turn runs observer_evaluate, robustness_detect,
\* policy_update, interviewer_generate and logger; the route is normal, the skill
\* matrix stays what it was before the turn, and the difficulty changes once, in
\* policy_update, to the previous difficulty minus 1 clamped to 1..5.
C20_ObserverFallbackTurn ==
    /\ [](ObserverFellBack =>
            /\ pc # "raised"
            /\ Executed("robustness_detect") => state.route = "normal"
            /\ Returned => trace = TURN_PREFIX \o TURN_SUFFIX)
    /\ [][FallbackTurnStep]_vars

\* a second turn that started at difficulty 3 and ends at 2
C20_Witness ==
    /\ pc = "returned"
    /\ ObserverFellBack
    /\ invocations = 2
    /\ state.difficulty = 2
    /\ trace[Len(trace)] = "logger"

\* the steps that call a role's wrapper
ROLE_NODES == {"profile_extract", "stop_intent", "observer_evaluate", "factcheck", "interviewer_generate", "final_feedback"}

\* C21: for each of the six roles, the fallback the wrapper returns when the
\* structured call raised LLMCallError validates against the role's schema in
\* every state the role's step can be reached in, so that no invocation is left
\* by an exception out of a role's step.
C21_FallbackValidates ==
    /\ pc = "raised" => trace[Len(trace)] \notin ROLE_NODES
    /\ pc = "profile_extract" => CandidateProfileOutput_model_validate(PROFILE_FALLBACK)
    /\ pc = "stop_intent" => StopIntentOutput_model_validate(STOP_INTENT_FALLBACK)
    /\ pc = "observer_evaluate" => ObserverOutput_model_validate(fallback_observer(state))
    /\ pc = "factcheck" => FactCheckVerdict_model_validate(fallback_factcheck(factcheck_claim(state)))
    /\ pc = "interviewer_generate" => InterviewerOutput_model_validate(fallback_interviewer(state))
    /\ pc = "final_feedback" =>
           FinalFeedback_model_validate(fallback_final_feedback(build_feedback_input(state, log)))

\* the interviewer's call failed at a difficulty the bank has no question of, after the observer's
\* call failed too: the turn went on with the default prompt and was completed
C21_Witness ==
    /\ pc = END
    /\ Executed("interviewer_generate")
    /\ IsObserverFallback(state)
    /\ state.agent_visible_message = DEFAULT_PROMPT
    /\ state.difficulty > 3

\* what the logger step does to the turn counter and to the log when the turn is completed
LoggerStepCounts ==
    (pc = "logger" /\ pc' = END) =>
        /\ state'.turn_id = state.turn_id + 1
        /\ Len(log'.turns) = Len(log.turns) + 1
        /\ SubSeq(log'.turns, 1, Len(log.turns)) = log.turns
        /\ log'.turns[Len(log'.turns)].turn_id = state'.turn_id

\* C22: in a session started with the turn counter at -1 the logged turn ids
\* increase strictly, beginning with 0 for the first completed non-stop turn; the
\* turn counter is the id of the last logged turn; the id the logger is about to
\* append is greater than the last recorded one, so its out-of-order check does
\* not fire; a completed non-stop turn raises the counter by one and appends one
\* record carrying the new counter.
C22_TurnIdsCount ==
    /\ [](/\ \A i \in DOMAIN log.turns : log.turns[i].turn_id = i - 1
          /\ state.turn_id = Len(log.turns) - 1
          /\ pc = "logger" =>
                ~(log.turns # <<>> /\ logger_turn(state).turn_id <= log.turns[Len(log.turns)].turn_id))
    /\ [][LoggerStepCounts]_vars

\* the second non-stop turn of a session has been logged
C22_Witness ==
    /\ pc = END
    /\ trace[Len(trace)] = "logger"
    /\ Len(log.turns) = 2
    /\ log.turns[2].turn_id = 1
    /\ state.turn_id = 1

\* intake on a state without a candidate profile, and the logger on a turn id that does not
\* exceed the last recorded one, end the invocation by an exception and write nothing
PreconditionAborts ==
    /\ (pc = "intake" /\ ("candidate_profile" \notin DOMAIN state \/ state.candidate_profile = NoneRec)) =>
           (pc' = "raised" /\ state' = state /\ log' = log)
    /\ (pc = "logger" /\ log.turns # <<>>
          /\ Get(state, "turn_id", 0) + 1 <= log.turns[Len(log.turns)].turn_id) =>
           (pc' = "raised" /\ state' = state /\ log' = log)
    /\ pc # "raised"

\* C23: a violated structural precondition aborts the invocation without repair:
\* intake raises when the candidate profile is missing or null, and the logger's
\* append_turn raises when the turn id is not greater than the last recorded id;
\* either way the state and the persisted log stay exactly as they were and no
\* step runs after the one that raised.
C23_PreconditionAborts == [][PreconditionAborts]_vars

\* the logger was reached with a turn id equal to the last recorded one and raised
C23_Witness ==
    /\ pc = "raised"
    /\ trace[Len(trace)] = "logger"
    /\ log.turns # <<>>
    /\ state.turn_id + 1 = log.turns[Len(log.turns)].turn_id

\* intake raised on a null candidate profile as the first step
C23_WitnessIntake ==
    /\ pc = "raised"
    /\ trace = <<"intake">>
    /\ Get(state, "candidate_profile", NoneRec) = NoneRec

IsPrefix(s, t) == Len(s) <= Len(t) /\ SubSeq(t, 1, Len(s)) = s

\* no step rewrites or removes an entry of the history
HistoryGrows == IsPrefix(state.history, state'.history)

\* the entries the running invocation has appended so far
HistoryInFlight ==
    IF pc \notin NODES \/ pc \in {"final_feedback", "final_logger"} THEN 0
    ELSE IF Executed("interviewer_generate") THEN 2
    ELSE IF Executed("observer_evaluate") THEN 1
    ELSE 0

AskedStep ==
    LET asked == state.asked_questions
        planned == Get(state, "planned_question", NoneRec)
        id == Get(planned, "question_id", None)
    IN  /\ IsPrefix(asked, state'.asked_questions)
        /\ IF pc = "interviewer_generate" /\ pc' # "raised" /\ id # None /\ id \notin AskedIds
           THEN state'.asked_questions = Append(asked, id)
           ELSE state'.asked_questions = asked

\* C25: over the turns of a session the asked ids are append-only and free of
\* duplicates: every step leaves the ids it found as a prefix of the ids it
\* leaves, no id occurs twice, a non-stop turn adds exactly the planned question's
\* id when a question was planned and its id was not yet among them, and nothing
\* otherwise; an invocation that resolves a stop adds nothing.
C25_AskedAppendOnly ==
    /\ [](\A i, j \in DOMAIN state.asked_questions :
              i # j => state.asked_questions[i] # state.asked_questions[j])
    /\ [][AskedStep]_vars

\* the third non-stop turn of a session is completed: three ids, the last the one planned in it
C25_Witness ==
    /\ pc = END
    /\ trace[Len(trace)] = "logger"
    /\ Len(state.asked_questions) = 3
    /\ state.asked_questions[3] = state.planned_question.question_id
    /\ state.last_question_id = state.asked_questions[3]

\* main() after an invocation that returned with stop requested and the final feedback attached
StopEndsSession ==
    (pc = END /\ Get(state, "stop_requested", FALSE) /\ Get(state, "final_feedback", NoneRec) # NoneRec) =>
        pc' = "exit"

\* C26: in a session driven by the CLI loop the final feedback is absent from
\* the state except in an invocation that has resolved a stop, and once an
\* invocation has returned with stop requested and the final feedback attached
\* the session is over: the engine is not invoked again.
C26_FeedbackEndsSession ==
    /\ [](Get(state, "final_feedback", NoneRec) # NoneRec =>
             (state.stop_requested /\ pc \in {"final_logger", END, "exit"}))
    /\ [][StopEndsSession]_vars

\* a session's state and its log file, whether it is being served or waiting
SessionStateOf(session_id) == IF state.session_id = session_id THEN state ELSE call.parked.state

SessionFileOf(session_id) ==
    IF state.session_id = session_id THEN log ELSE call.files[make_log_path(session_id)]

\* the names a session's profile may carry: none before the extraction, then its own candidate's
SESSION_NAMES == ("session-1" :> {None, ""}) @@ ("session-2" :> {None, "Anna"})

\* a session's state and file hold what its own invocations put there
OwnDataOnly(session_id) ==
    LET s == SessionStateOf(session_id)
        f == SessionFileOf(session_id)
    IN  /\ s.session_id = session_id
        /\ Len(f.turns) = s.turn_id + 1
        /\ \A i \in DOMAIN f.turns :
              /\ f.turns[i].turn_id = i - 1
              /\ f.turns[i].user_message \in SESSION_MESSAGES[session_id]
        /\ \A i \in DOMAIN s.history :
              s.history[i].role = "candidate" => s.history[i].content \in SESSION_MESSAGES[session_id]
        /\ Len(s.asked_questions) <= Len(f.turns) + 1
        /\ s.candidate_profile.name \in SESSION_NAMES[session_id]
        /\ f.candidate_profile.name \in SESSION_NAMES[session_id]
        /\ f.final_feedback # NoneRec => f.final_feedback = s.final_feedback

\* a step of the served session leaves the waiting session's state and every file but its own
\* alone; turning to the other session hands it the file as its last invocation left it
OwnChangesOnly ==
    /\ pc \in NODES \cup {END} => call' = call
    /\ (pc = "caller" /\ state'.session_id # state.session_id) =>
          /\ log' = call.files[make_log_path(state'.session_id)]
          /\ state' = call.parked.state
          /\ call'.parked.state = state
          /\ call'.files[make_log_path(state.session_id)] = log

\* C27: when the invocations of two sessions are interleaved in any order, each
\* session's state and log file are changed only by its own invocations: a
\* session's log holds its own turns, profile and feedback, its state its own
\* messages, and a step taken for one session leaves the other's state and log
\* file as they were.
C27_SessionsIsolated ==
    /\ [](\A session_id \in SESSION_IDS : OwnDataOnly(session_id))
    /\ [][OwnChangesOnly]_vars

\* both sessions have logged a turn, the first has since been stopped and the second is served
C27_Witness ==
    /\ pc = "caller"
    /\ state.session_id = "session-2"
    /\ Len(log.turns) = 1
    /\ Len(SessionFileOf("session-1").turns) = 1
    /\ SessionFileOf("session-1").final_feedback # NoneRec
    /\ log.final_feedback = NoneRec

\* the relaxation as the claim orders it: the topic's questions of the difficulty whatever their
\* type, then the difficulty's questions whatever their topic, then the levels 1..5 in turn
RelaxedAsStated(asked_questions, topic, difficulty) ==
    LET same_topic == FirstUnasked(get_candidates(topic, difficulty, None), asked_questions)
        same_difficulty == FirstUnasked(get_candidates(None, difficulty, None), asked_questions)
    IN  IF same_topic # NoneRec THEN same_topic
        ELSE IF same_difficulty # NoneRec THEN same_difficulty
        ELSE FirstUnaskedOfLevels(asked_questions, 1)

\* C28: when no unasked question matches the exact (difficulty, topic, type)
\* triple and no loop is declared, the question policy_update plans is the first
\* unasked one, in bank order, of the first non-empty stage among: the topic and
\* the difficulty with any type, the difficulty with any topic, the levels 1..5
\* in ascending order.
C28_RelaxationOrder ==
    (/\ call # NO_CALL
     /\ call.fn = "policy_update_node"
     /\ pick_next_question(policy_asked_questions(call.state), policy_selected_topic(call.state),
                           policy_difficulty(call.state), policy_followup_type(call.state)) = NoneRec
     /\ ~policy_loop_declared(call.state)) =>
        call.result.planned_question =
            RelaxedAsStated(policy_asked_questions(call.state), policy_selected_topic(call.state),
                            policy_difficulty(call.state))

\* the hashes of the prompts handed to detect_loop so far, in the order of the calls
PlannedHashes == [i \in DOMAIN call.prompts |-> _hash_prompt(call.prompts[i])]

\* C29: the ring of prompt hashes never holds more than 5 entries, neither in a
\* session's state, nor after policy_update, nor after any number of detect_loop
\* calls; after each detect_loop call, on a ring that began empty, it holds the
\* hashes of the most recent prompts, at most 5, in the order they were planned,
\* the newest last.
C29_RingHoldsLastFive ==
    /\ Len(Get(state.topic_state, "last_prompts_hashes", <<>>)) <= PROMPT_RING_SIZE
    /\ (call # NO_CALL /\ call.fn = "policy_update_node") =>
           Len(Get(call.result.topic_state, "last_prompts_hashes", <<>>)) <= PROMPT_RING_SIZE
    /\ (call # NO_CALL /\ call.fn = "detect_loop") =>
           LET ring == call.topic_state_after.last_prompts_hashes
               n == Len(PlannedHashes)
           IN  /\ Len(ring) = Min(n, PROMPT_RING_SIZE)
               /\ \A i \in DOMAIN ring : ring[i] = PlannedHashes[n - Len(ring) + i]

\* six calls on two different prompts: the ring holds the hashes of the second to the sixth
C29_Witness ==
    /\ call # NO_CALL
    /\ call.fn = "detect_loop"
    /\ call.calls = 6
    /\ call.prompts[1] # call.prompts[2]
    /\ call.prompts[5] # call.prompts[6]
    /\ Len(call.topic_state_after.last_prompts_hashes) = 5
    /\ call.topic_state_after.last_prompts_hashes[1] = _hash_prompt(call.prompts[2])
    /\ call.topic_state_after.last_prompts_hashes[5] = _hash_prompt(call.prompts[6])

\* the priority the claim gives a topic: that of its status in the matrix, read without regard
\* to case and surrounding blanks; unknown for a topic the matrix lacks or a status it does not list
StatedPriority(skill_matrix, topic) ==
    LET status == IF topic \in DOMAIN skill_matrix THEN normalize_topic(skill_matrix[topic].status)
                  ELSE "unknown"
    IN  CASE status = "gap" -> 0
          [] status = "uncertain" -> 1
          [] status = "confirmed" -> 3
          [] OTHER -> 2

\* C30: when the last two topics do not force a switch, select_next_topic
\* returns, for every skill matrix, a topic of the master list whose status
\* priority (gap 0, uncertain 1, unknown 2, confirmed 3; unknown for an absent
\* topic and for a status outside these four) is the lowest, and the first such
\* topic in the order of the master list.
C30_LowestPriorityFirst ==
    (/\ call # NO_CALL
     /\ call.fn = "select_next_topic"
     /\ ~should_switch_topic(call.last_topics, get_all_topics)) =>
        \E i \in DOMAIN get_all_topics :
            /\ call.result = get_all_topics[i]
            /\ \A j \in DOMAIN get_all_topics :
                  /\ StatedPriority(call.skill_matrix, get_all_topics[j])
                        >= StatedPriority(call.skill_matrix, get_all_topics[i])
                  /\ j < i => StatedPriority(call.skill_matrix, get_all_topics[j])
                                 > StatedPriority(call.skill_matrix, get_all_topics[i])

\* the first topic of the master list has a status the mapping does not know and ranks as
\* unknown, level with the absent topics after it: it is returned
C30_Witness ==
    /\ call # NO_CALL
    /\ call.fn = "select_next_topic"
    /\ call.last_topics = <<"git_basics", "sql_joins">>
    /\ DOMAIN call.skill_matrix = {"git_basics", "python_oop"}
    /\ call.skill_matrix["git_basics"].status = "mastered"
    /\ call.skill_matrix["python_oop"].status = "confirmed"
    /\ call.result = "git_basics"

----------------------------------------------------------------------------
(* C31: two identical recent topics force a different topic *)

\* the topics of the master list other than the given one that the stated ranking puts
\* first: lowest status priority, earliest in the master list
BestRankedAlternative(skill_matrix, repeated) ==
    {get_all_topics[i] : i \in
        {i \in DOMAIN get_all_topics :
            /\ get_all_topics[i] # repeated
            /\ \A j \in DOMAIN get_all_topics :
                  get_all_topics[j] # repeated =>
                     /\ StatedPriority(skill_matrix, get_all_topics[j])
                           >= StatedPriority(skill_matrix, get_all_topics[i])
                     /\ j < i => StatedPriority(skill_matrix, get_all_topics[j])
                                    > StatedPriority(skill_matrix, get_all_topics[i])}}

\* the suggested topic of the evaluator as policy_update reads it, "" when there is none
SuggestedTopic(s) ==
    LET raw == Get(Get(Get(s, "observer_json", <<>>), "next_action", <<>>), "topic", None)
    IN  IF raw = None \/ raw = "" THEN "" ELSE normalize_topic(raw)

----------------------------------------------------------------------------
(* C32: the suggested topic against the ranked topic *)

\* the last two entries of the recent-topic history of a state
RecentTopics(s) ==
    LET recent == LastN(Get(Get(s, "topic_state", <<>>), "last_topics", <<>>), 2)
    IN  {recent[i] : i \in DOMAIN recent}

\* what policy_update is said to select on a state
StatedSelection(s) ==
    IF SuggestedTopic(s) # "" /\ SuggestedTopic(s) \notin RecentTopics(s)
    THEN SuggestedTopic(s)
    ELSE select_next_topic(Get(s, "skill_matrix", <<>>), Get(s, "topic_state", <<>>))

PolicySelectsAsStated ==
    pc = "policy_update" =>
        /\ state'.topic_state.current_topic = StatedSelection(state)
        /\ state'.topic_state.last_topics
              = LastN(Append(Get(Get(state, "topic_state", <<>>), "last_topics", <<>>), StatedSelection(state)), LAST_TOPICS_SIZE)

\* C32: in every policy_update step of a session, the topic selected is the
\* normalized suggested topic of the evaluator exactly when that topic is not
\* empty and is not one of the last two entries of the recent-topic history;
\* otherwise it is the topic select_next_topic ranks first.
C32_SuggestedTopicOverride == [][PolicySelectsAsStated]_vars

\* policy_update has just run on a suggested topic that was one of the last two
\* topics, and the ranked topic was selected instead
C32_Witness ==
    /\ trace # <<>>
    /\ trace[Len(trace)] = "policy_update"
    /\ SuggestedTopic(state) # ""
    /\ Len(state.topic_state.last_topics) >= 2
    /\ state.topic_state.last_topics[Len(state.topic_state.last_topics) - 1] = SuggestedTopic(state)
    /\ state.topic_state.current_topic # SuggestedTopic(state)

----------------------------------------------------------------------------
(* C33: the candidate profile after its extraction *)

ProfileKept ==
    Get(state, "profile_extracted", FALSE) =>
        /\ "candidate_profile" \in DOMAIN state'
        /\ state'.candidate_profile = state.candidate_profile

\* C33: once the profile has been extracted, no step of the session (a node of
\* the graph on a turn that stops or does not, or the caller between two
\* invocations) changes the name, level, position, skills, confidence or
\* assumptions of the candidate profile in the state.
C33_ProfileFrozen == [][ProfileKept]_vars

\* a third invocation has ended with the profile the extractor produced on the first
C33_Witness ==
    /\ pc = END
    /\ invocations = 3
    /\ state.profile_extracted
    /\ state.candidate_profile.name = "Anna"
    /\ state.turn_id >= 1

----------------------------------------------------------------------------
(* C34: what robustness_detect reads *)

\* a state that shares with s the robustness block of the evaluator and the stop
\* flag, holds the given message, and is a new session's state in all the rest
SameSignals(s, message) ==
    Merge(InitialState,
          [observer_json |-> [robustness |-> Get(Get(s, "observer_json", <<>>), "robustness", <<>>)],
           stop_requested |-> Get(s, "stop_requested", FALSE),
           user_message |-> message])

\* the flags, the reason and the route of an update of robustness_detect
FlagsAndRoute(update) ==
    [off_topic |-> update.robustness_det.off_topic,
     role_reversal |-> update.robustness_det.role_reversal,
     hallucination_claim |-> update.robustness_det.hallucination_claim,
     evasive |-> update.robustness_det.evasive,
     reason |-> update.robustness_det.reason,
     route |-> update.route]

RobustnessReadsSignalsOnly ==
    pc = "robustness_detect" =>
        /\ \A message \in MESSAGES :
              FlagsAndRoute(robustness_detect_node(SameSignals(state, message))) = FlagsAndRoute(state')
        /\ robustness_detect_node(SameSignals(state, Get(state, "user_message", <<>>))).robustness_det
              = state'.robustness_det

\* C34: the four flags, the reason and the route that robustness_detect writes
\* are the same for any two states that agree on the robustness block of the
\* evaluator's output and on the stop flag, whatever the candidate's message and
\* the rest of the state are; the message decides only the candidate_question
\* and suspicious_claim strings, which the block and the message determine.
C34_RobustnessNonInterference == [][RobustnessReadsSignalsOnly]_vars

\* robustness_detect has run on a question of the candidate flagged as role
\* reversal and has extracted the question from the message
C34_Witness ==
    /\ trace # <<>>
    /\ trace[Len(trace)] = "robustness_detect"
    /\ state.user_message = MSG_QUESTION
    /\ state.route = "answer_candidate"
    /\ state.robustness_det.candidate_question # NoneMsg
    /\ state.robustness_det.candidate_question
          # robustness_detect_node(SameSignals(state, MSG_ANSWER)).robustness_det.candidate_question

----------------------------------------------------------------------------
(* C35: the planned response is of the turn *)

\* the payload the node of the route builds from the state of this turn
BuiltThisTurn(s) ==
    CASE s.route = "answer_candidate" -> answer_candidate_node(s).planned_response
      [] s.route = "refocus" -> refocus_node(s).planned_response
      [] s.route = "hallucination" -> hallucination_node(s).planned_response
      [] OTHER -> NoneRec

\* C35: when interviewer_generate is about to run, the planned response it
\* hands to the interviewer is absent exactly when the route of the turn is
\* normal; on any other route it is the payload the node of that route builds
\* from this turn's state, and its type is the route.
C35_PlannedResponsePerTurn ==
    pc = "interviewer_generate" =>
        /\ (interviewer_payload(state).planned_response = NoneRec) <=> (state.route = "normal")
        /\ state.route # "normal" =>
              /\ interviewer_payload(state).planned_response.type = state.route
              /\ interviewer_payload(state).planned_response = BuiltThisTurn(state)

\* a turn on route normal that follows a turn on which the candidate was brought back
\* to the interview: the interviewer is handed no planned response
C35_Witness ==
    /\ pc = "interviewer_generate"
    /\ state.route = "normal"
    /\ Len(log.turns) = 1
    /\ \E i \in DOMAIN log.turns[1].internal_thoughts :
          /\ log.turns[1].internal_thoughts[i].tag = "RobustnessDetector"
          /\ log.turns[1].internal_thoughts[i].route = "refocus"
    /\ interviewer_payload(state).planned_response = NoneRec

----------------------------------------------------------------------------
(* C40: the fact-check verdict handed to the interviewer *)

----------------------------------------------------------------------------
(* C36: the three strategies of _extract_json_substring *)

\* the brace depth the scan holds after the first k characters of a text: a
\* closing brace with none open is passed over
RECURSIVE ScanDepth(_, _)
ScanDepth(text, k) ==
    IF k = 0 THEN 0
    ELSE IF text[k] = "{" THEN ScanDepth(text, k - 1) + 1
    ELSE IF text[k] = "}" THEN Max(ScanDepth(text, k - 1) - 1, 0)
    ELSE ScanDepth(text, k - 1)

\* the spans from an opening brace to the closing brace that balances it
BalancedSpans(text) ==
    {span \in (DOMAIN text) \X (DOMAIN text) :
        /\ span[1] < span[2]
        /\ text[span[1]] = "{"
        /\ ScanDepth(SubSeq(text, span[1], span[2]), span[2] - span[1] + 1) = 0
        /\ \A k \in 1..(span[2] - span[1]) : ScanDepth(SubSeq(text, span[1], span[2]), k) > 0}

\* those of them that open while no brace of the text is open
TopLevelSpans(text) ==
    {span \in BalancedSpans(text) :
        /\ ScanDepth(text, span[1] - 1) = 0
        /\ \A k \in span[1]..(span[2] - 1) : ScanDepth(text, k) > 0}

\* the first span of a set that json.loads accepts, or the failure
FirstParsing(text, spans) ==
    LET parsing == {span \in spans : json_loads(SubSeq(text, span[1], span[2])).ok}
    IN  IF parsing = {} THEN [ok |-> FALSE, text |-> <<>>]
        ELSE LET first == CHOOSE span \in parsing : \A other \in parsing : span[1] <= other[1]
             IN  [ok |-> TRUE, text |-> SubSeq(text, first[1], first[2])]

\* the slice from the first opening brace to the last closing brace, <<>> without one
BraceSlice(text) ==
    IF Find(text, "{") # 0 /\ RFind(text, "}") > Find(text, "{")
    THEN SubSeq(text, Find(text, "{"), RFind(text, "}")) ELSE <<>>

\* the three strategies in their order, the third over a given set of spans
ThreeStrategies(text, spans) ==
    IF json_loads(text).ok THEN [ok |-> TRUE, text |-> text]
    ELSE IF BraceSlice(text) # <<>> /\ json_loads(BraceSlice(text)).ok THEN [ok |-> TRUE, text |-> BraceSlice(text)]
    ELSE FirstParsing(text, spans)

JSON_OBJECTS == {<<"{", "a", "}">>, <<"{", "b", "}">>, <<"{", "}">>}

\* a text holds a parseable object when one of its slices is an object json.loads accepts
HoldsObject(text) ==
    \E i, j \in DOMAIN text : i < j /\ SelectSeq(SubSeq(text, i, j), LAMBDA c : ~IsSpace(c)) \in JSON_OBJECTS

\* an object with one more character before or after it
OneStray(text, strays) ==
    \E object \in JSON_OBJECTS : \E c \in strays : text = <<c>> \o object \/ text = Append(object, c)

RecoveredBySlice(text, result) ==
    /\ ~json_loads(Strip(text)).ok
    /\ result.ok
    /\ result.text = BraceSlice(Strip(text))
    /\ result.text \in JSON_OBJECTS

----------------------------------------------------------------------------
(* C37: no loop is declared in a session of the CLI *)

\* the question planned on the last turn is in the asked list
PlannedIsRecorded ==
    Get(state, "planned_question", NoneRec) # NoneRec =>
        \E i \in DOMAIN state.asked_questions : state.asked_questions[i] = state.planned_question.question_id

\* no two prompts planned one after the other are the same
ConsecutivePromptsDiffer ==
    LET hashes == Get(Get(state, "topic_state", <<>>), "last_prompts_hashes", <<>>)
    IN  \A i \in DOMAIN hashes : i + 1 \in DOMAIN hashes => hashes[i] # hashes[i + 1]

\* C37: in a session started by the CLI, when policy_update is about to plan, the
\* question planned on the turn before is in the asked list; the prompts planned
\* on consecutive turns are never identical; and detect_loop does not declare a
\* loop on the question policy_update plans, so the loop-breaking branch is not
\* taken.
C37_NoLoopInSession ==
    /\ pc \in {"policy_update", "cli_loop"} => PlannedIsRecorded
    /\ ConsecutivePromptsDiffer
    /\ pc = "policy_update" => ~policy_loop_declared(state)

\* the third turn of a session is about to plan: two prompts are in the ring, a
\* question is found, and detect_loop is asked about it
C37_Witness ==
    /\ pc = "policy_update"
    /\ invocations = 3
    /\ Len(state.topic_state.last_prompts_hashes) = 2
    /\ Len(state.asked_questions) = 2
    /\ policy_first_plan(state) # NoneRec
    /\ _hash_prompt(policy_first_plan(state).prompt) # state.topic_state.last_prompts_hashes[2]

----------------------------------------------------------------------------
(* C38: what a stop invocation changes *)

\* the fields of the state a step has changed or added
ChangedFields == {k \in DOMAIN state' : k \notin DOMAIN state \/ state'[k] # state[k]}

STOP_FRAME ==
    {"turn_id", "history", "asked_questions", "difficulty", "skill_matrix", "topic_state",
     "action_type", "route", "planned_question"}

STOP_WRITES == {"stop_requested", "stop_intent", "internal_thoughts", "final_feedback"}

\* a step of one of the five nodes a stop invocation runs
StopPathStepFrame ==
    (pc \in {STOP_PATH[i] : i \in DOMAIN STOP_PATH}) =>
        /\ DOMAIN state \subseteq DOMAIN state'
        /\ ChangedFields \cap STOP_FRAME = {}
        /\ ChangedFields \subseteq
              STOP_WRITES \cup (IF invocations = 1 THEN {"candidate_profile", "profile_extracted"} ELSE {})
        /\ log'.turns = log.turns

\* C38: each step of the five nodes a stop invocation runs (intake,
\* profile_extract, stop_intent, final_feedback, final_logger) leaves the turn
\* counter, the history, the asked list, the difficulty, the skill matrix, the
\* topic state, the action type, the route and the planned question as they
\* are and appends no turn to the log; it changes nothing in the state but the
\* stop flag, the stop-intent record, the internal notes and the final
\* feedback, and on the first invocation the candidate profile.
C38_StopInvocationFrame == [][StopPathStepFrame]_vars

\* a stop invocation has ended after two logged turns: the state holds the final
\* feedback, the turn counter and the log are those of the second turn
C38_Witness ==
    /\ pc = END
    /\ trace = STOP_PATH
    /\ invocations = 3
    /\ state.stop_requested
    /\ state.final_feedback # NoneRec
    /\ state.turn_id = 1
    /\ Len(log.turns) = 2
    /\ Len(state.asked_questions) = 2

----------------------------------------------------------------------------
(* C39: the agent message of a logged turn *)

\* the messages interviewer_generate has emitted, in the order of their turns
EmittedMessages == SelectSeq(Get(state, "history", <<>>), LAMBDA entry : entry.role = "interviewer")

\* the messages of the candidate the evaluator has seen, in the order of their turns
AnsweredMessages == SelectSeq(Get(state, "history", <<>>), LAMBDA entry : entry.role = "candidate")

\* C39: in a session of the CLI the first logged turn holds the greeting, and
\* every later logged turn holds (as the logger normalizes it) the message
\* interviewer_generate emitted on the non-stop turn completed before it, with
\* the candidate's message of its own turn: the message generated in an
\* invocation is logged by the next one, not by itself.
C39_LoggedAgentMessage ==
    \A i \in DOMAIN log.turns :
        /\ i = 1 => log.turns[i].agent_visible_message = normalize_text(GREETING, AGENT_MESSAGE_MAX_LEN)
        /\ i > 1 =>
              /\ i - 1 \in DOMAIN EmittedMessages
              /\ log.turns[i].agent_visible_message
                    = normalize_text(EmittedMessages[i - 1].content, AGENT_MESSAGE_MAX_LEN)
        /\ i \in DOMAIN AnsweredMessages
        /\ log.turns[i].user_message = normalize_text(AnsweredMessages[i].content, USER_MESSAGE_MAX_LEN)

\* the second turn has been logged with the message of the first turn, which is
\* not the message the second turn generated
C39_Witness ==
    /\ pc = END
    /\ trace[Len(trace)] = "logger"
    /\ Len(log.turns) = 2
    /\ Len(EmittedMessages) = 2
    /\ EmittedMessages[1].content # EmittedMessages[2].content
    /\ log.turns[2].agent_visible_message = EmittedMessages[1].content
    /\ log.turns[1].agent_visible_message = GREETING

====
